---- MODULE Spec2Model ----
(***************************************************************************)
(* Behavioral-Health-Continuum ETL: the loader (etl/download.py and        *)
(* src/data_acquisition/download.py), the normalizer, schema validator and *)
(* county filter (etl/process_clean.py), the exporters (etl/export.py) and *)
(* the run of main (etl/main.py).                                          *)
(*                                                                         *)
(* A cell value is a record [t, n, s]: t is the dynamic type of the pandas *)
(* cell, n its number and s its text as a sequence of characters.  Floats  *)
(* are fixed-point: n counts units of 1/Scale.  NaN, None and NaT are the  *)
(* one value Null, as pd.isna treats them.  Column labels are cell values  *)
(* too, as in pandas.  A DataFrame is [cols, index, rows].                 *)
(***************************************************************************)
EXTENDS Integers, Sequences, FiniteSets, TLC

\* Resolution of the fixed-point floats: four decimals, the finest rounding
\* the normalizer asks for (.round(4)).
Scale == 10000

\* ------------------------------------------------------------------ text
\* Text is a sequence of characters.  The column labels the rules name:
CountyName == <<"C","o","u","n","t","y","N","a","m","e">>
County == <<"C","o","u","n","t","y">>
Label == <<"L","a","b","e","l">>
Treatment_Capacity == <<"T","r","e","a","t","m","e","n","t","_","C","a","p","a","c","i","t","y">>
Total_Capacity == <<"T","o","t","a","l","_","C","a","p","a","c","i","t","y">>
Capacity_Utilization == <<"C","a","p","a","c","i","t","y","_","U","t","i","l","i","z","a","t","i","o","n">>
Large_Facility == <<"L","a","r","g","e","_","F","a","c","i","l","i","t","y">>
members == <<"m","e","m","b","e","r","s">>
Calaveras == <<"C","a","l","a","v","e","r","a","s">>

Digits == <<"0","1","2","3","4","5","6","7","8","9">>
LowerCase == <<"a","b","c","d","e","f","g","h","i","j","k","l","m","n","o","p","q","r","s","t","u","v","w","x","y","z">>
UpperCase == <<"A","B","C","D","E","F","G","H","I","J","K","L","M","N","O","P","Q","R","S","T","U","V","W","X","Y","Z">>

Range(q) == {q[i] : i \in DOMAIN q}

\* g applied to the value of x: a statement run on the result of the one before.
With(x, g(_)) == CHOOSE y \in {g(d) : d \in {x}} : TRUE

IsDigit(c) == c \in Range(Digits)
IsLower(c) == c \in Range(LowerCase)
IsUpper(c) == c \in Range(UpperCase)
IsCased(c) == IsLower(c) \/ IsUpper(c)

PosIn(c, q) == CHOOSE i \in DOMAIN q : q[i] = c

\* str.upper / str.lower of one character.
ToUpper(c) == IF IsLower(c) THEN UpperCase[PosIn(c, LowerCase)] ELSE c
ToLower(c) == IF IsUpper(c) THEN LowerCase[PosIn(c, UpperCase)] ELSE c

\* str.title(): a cased character is upper-cased when the character before it
\* is not cased, and lower-cased otherwise.
Title(x) ==
  [i \in DOMAIN x |->
     IF i > 1 /\ IsCased(x[i-1]) THEN ToLower(x[i]) ELSE ToUpper(x[i])]

\* str.startswith / str.endswith.
StartsWith(x, p) == Len(x) >= Len(p) /\ SubSeq(x, 1, Len(p)) = p
EndsWith(x, p) == Len(x) >= Len(p) /\ SubSeq(x, Len(x) - Len(p) + 1, Len(x)) = p

\* str.rstrip(chars) for a one-character set, str.strip() for blanks.
RECURSIVE RStrip(_, _)
RStrip(x, c) ==
  IF Len(x) > 0 /\ x[Len(x)] = c THEN RStrip(SubSeq(x, 1, Len(x) - 1), c) ELSE x
RECURSIVE LStrip(_, _)
LStrip(x, c) == IF Len(x) > 0 /\ x[1] = c THEN LStrip(Tail(x), c) ELSE x
Strip(x) == LStrip(RStrip(x, " "), " ")

\* str.replace(c, ''): every occurrence of the character removed.
RemoveChar(x, c) == SelectSeq(x, LAMBDA d : d # c)

\* str.split(c)[0]: the text before the first occurrence of c.
FirstPos(x, c) == CHOOSE i \in DOMAIN x : x[i] = c /\ \A j \in 1..(i - 1) : x[j] # c
BeforeFirst(x, c) ==
  IF \E i \in DOMAIN x : x[i] = c THEN SubSeq(x, 1, FirstPos(x, c) - 1) ELSE x
\* the text after the first occurrence of c
AfterFirst(x, c) == SubSeq(x, FirstPos(x, c) + 1, Len(x))

\* str(n) of a natural number, and its inverse on digit strings.
RECURSIVE NatToStr(_)
NatToStr(k) ==
  IF k < 10 THEN <<Digits[k + 1]>> ELSE NatToStr(k \div 10) \o <<Digits[(k % 10) + 1]>>
IntToStr(k) == IF k < 0 THEN <<"-">> \o NatToStr(-k) ELSE NatToStr(k)

RECURSIVE DigitsToNat(_)
DigitsToNat(x) ==
  IF x = <<>> THEN 0
  ELSE 10 * DigitsToNat(SubSeq(x, 1, Len(x) - 1)) + (PosIn(x[Len(x)], Digits) - 1)

\* str.zfill(w): zeros go after a leading sign.
RECURSIVE Zeros(_)
Zeros(k) == IF k <= 0 THEN <<>> ELSE <<"0">> \o Zeros(k - 1)
ZFill(x, w) ==
  IF Len(x) > 0 /\ x[1] \in {"-", "+"}
    THEN <<x[1]>> \o Zeros(w - Len(x)) \o Tail(x)
    ELSE Zeros(w - Len(x)) \o x

\* repr of a float held as k units of 1/Scale: "1234.0", "0.8", "-0.03".
FracDigits(k) == RStrip(ZFill(NatToStr(k), 4), "0")
RECURSIVE FloatToStr(_)
FloatToStr(k) ==
  IF k < 0 THEN <<"-">> \o FloatToStr(-k)
  ELSE NatToStr(k \div Scale) \o <<".">>
         \o (IF k % Scale = 0 THEN <<"0">> ELSE FracDigits(k % Scale))

\* The numeric reading of a string, as float() and pd.to_numeric take it:
\* blanks stripped, an optional sign, digits with at most one decimal point.
\* ok: it parses; int: it has no decimal point; n: its value in 1/Scale.
AllDigits(x) == \A i \in DOMAIN x : IsDigit(x[i])
ParseUnsigned(ip, fp, dotted) ==
  IF Len(ip) + Len(fp) > 0 /\ AllDigits(ip) /\ AllDigits(fp)
    THEN [ok |-> TRUE, int |-> ~dotted,
          n |-> DigitsToNat(ip) * Scale
                  + DigitsToNat(SubSeq(fp \o Zeros(4 - Len(fp)), 1, 4))]
    ELSE [ok |-> FALSE, int |-> ~dotted, n |-> 0]
ParseMagnitude(x) ==
  IF \E i \in DOMAIN x : x[i] = "."
    THEN ParseUnsigned(BeforeFirst(x, "."), AfterFirst(x, "."), TRUE)
    ELSE ParseUnsigned(x, <<>>, FALSE)
Negated(p) == [p EXCEPT !.n = -p.n]
ParseStripped(x) ==
  IF Len(x) > 0 /\ x[1] = "-" THEN Negated(ParseMagnitude(Tail(x)))
  ELSE IF Len(x) > 0 /\ x[1] = "+" THEN ParseMagnitude(Tail(x))
  ELSE ParseMagnitude(x)
ParseNum(x) == ParseStripped(Strip(x))

\* ------------------------------------------------------------ cell values
Null == [t |-> "null", n |-> 0, s |-> <<>>]
IntV(k) == [t |-> "int", n |-> k, s |-> <<>>]
FloatV(k) == [t |-> "float", n |-> k, s |-> <<>>]
InfV(sign) == [t |-> "inf", n |-> sign, s |-> <<>>]
StrV(x) == [t |-> "str", n |-> 0, s |-> x]
BoolV(b) == [t |-> "bool", n |-> IF b THEN 1 ELSE 0, s |-> <<>>]
DateV(ymd) == [t |-> "date", n |-> ymd, s |-> <<>>]

\* pd.isna / pd.notna.
IsNa(v) == v.t = "null"
NotNa(v) == v.t # "null"

\* The value of a finite number in units of 1/Scale.
Scaled(v) == IF v.t \in {"int", "bool"} THEN v.n * Scale ELSE v.n

\* str of a timestamp at midnight, as astype(str) prints it: "2025-06-30".
DateToStr(ymd) ==
  ZFill(NatToStr(ymd \div 10000), 4) \o <<"-">> \o ZFill(NatToStr((ymd \div 100) % 100), 2)
    \o <<"-">> \o ZFill(NatToStr(ymd % 100), 2)

\* str(v), which astype(str) applies to every cell: NaN gives "nan".
ToStr(v) ==
  CASE v.t = "str" -> v.s
    [] v.t = "int" -> IntToStr(v.n)
    [] v.t = "float" -> FloatToStr(v.n)
    [] v.t = "inf" -> (IF v.n < 0 THEN <<"-">> ELSE <<>>) \o <<"i","n","f">>
    [] v.t = "bool" -> (IF v.n = 1 THEN <<"T","r","u","e">> ELSE <<"F","a","l","s","e">>)
    [] v.t = "date" -> DateToStr(v.n)
    [] OTHER -> <<"n","a","n">>
AsTypeStr(v) == StrV(ToStr(v))

\* to_datetime(errors='coerce') of one cell: an ISO date string parses, any
\* other text is NaT; a number counts nanoseconds from 1970-01-01.
WellFormedDate(x) ==
  /\ Len(x) = 10
  /\ x[5] = "-" /\ x[8] = "-"
  /\ \A i \in {1, 2, 3, 4, 6, 7, 9, 10} : IsDigit(x[i])
  /\ DigitsToNat(SubSeq(x, 6, 7)) \in 1..12
  /\ DigitsToNat(SubSeq(x, 9, 10)) \in 1..31
ParseDate(x) ==
  IF WellFormedDate(x)
    THEN DateV(DigitsToNat(SubSeq(x, 1, 4)) * 10000 + DigitsToNat(SubSeq(x, 6, 7)) * 100
                 + DigitsToNat(SubSeq(x, 9, 10)))
    ELSE Null
ToDatetimeCell(v) ==
  CASE v.t = "str" -> ParseDate(v.s)
    [] v.t \in {"int", "float"} -> DateV(19700101)
    [] v.t = "date" -> v
    [] OTHER -> Null

\* -------------------------------------------------------------- DataFrame
\* pd.DataFrame(): no columns, no rows.
EmptyDataFrame == [cols |-> <<>>, index |-> <<>>, rows |-> <<>>]

\* len(df)
NRows(df) == Len(df.rows)

\* `c in df.columns`, for a literal column name c
HasColumn(df, c) == \E i \in DOMAIN df.cols : df.cols[i] = StrV(c)
ColPos(df, c) ==
  CHOOSE i \in DOMAIN df.cols :
    df.cols[i] = StrV(c) /\ \A j \in 1..(i - 1) : df.cols[j] # StrV(c)

\* df[c]: the cells of a column, one per row
Column(df, c) == [r \in DOMAIN df.rows |-> df.rows[r][ColPos(df, c)]]

\* df[c] = vals: an existing column is overwritten in place, a new one is
\* appended as the last column
SetColumn(df, c, vals) ==
  IF HasColumn(df, c)
    THEN [df EXCEPT !.rows =
            [r \in DOMAIN df.rows |-> [df.rows[r] EXCEPT ![ColPos(df, c)] = vals[r]]]]
    ELSE [df EXCEPT !.cols = Append(df.cols, StrV(c)),
                    !.rows = [r \in DOMAIN df.rows |-> Append(df.rows[r], vals[r])]]

\* df[c] = f(df[c]) cell by cell, when the column is present
MapColumn(df, c, f(_)) ==
  IF HasColumn(df, c)
    THEN SetColumn(df, c, [r \in DOMAIN df.rows |-> f(Column(df, c)[r])])
    ELSE df

\* df[mask]: the rows whose position is in keep, in their order, each with the
\* index label it had
RECURSIVE Positions(_, _, _)
Positions(keep, from, to) ==
  IF from > to THEN <<>>
  ELSE (IF from \in keep THEN <<from>> ELSE <<>>) \o Positions(keep, from + 1, to)
TakeRows(df, ps) ==
  [df EXCEPT !.index = [i \in DOMAIN ps |-> df.index[ps[i]]],
             !.rows = [i \in DOMAIN ps |-> df.rows[ps[i]]]]
SelectRows(df, keep) == TakeRows(df, Positions(keep, 1, NRows(df)))

\* ------------------------------------------------------- column operations
\* pd.to_numeric(column, errors='coerce'): text that reads as a number becomes
\* one, any other text NaN; the column is int64 only when every cell is an
\* integer, else float64.
NumberParsed(p) ==
  IF ~p.ok THEN Null ELSE IF p.int THEN IntV(p.n \div Scale) ELSE FloatV(p.n)
ToNumericCell(v) ==
  IF v.t = "str" THEN NumberParsed(ParseNum(v.s))
  ELSE IF v.t \in {"int", "float", "inf", "null"} THEN v
  ELSE IF v.t = "bool" THEN IntV(v.n)
  ELSE Null
AsFloat64(cells) ==
  IF \E r \in DOMAIN cells : cells[r].t # "int"
    THEN [r \in DOMAIN cells |->
            IF cells[r].t = "int" THEN FloatV(cells[r].n * Scale) ELSE cells[r]]
    ELSE cells
ToNumeric(col) == AsFloat64([r \in DOMAIN col |-> ToNumericCell(col[r])])

\* int(x) of a finite number: truncation toward zero
Trunc(k) == IF k < 0 THEN -((-k) \div Scale) ELSE k \div Scale
IntOf(v) == Trunc(Scaled(v))

\* pd.to_numeric(col, errors='coerce').apply(
\*     lambda x: str(int(x)).zfill(w) if pd.notna(x) else None)
PadCell(v, w) == IF NotNa(v) THEN StrV(ZFill(IntToStr(IntOf(v)), w)) ELSE Null
ZeroPadCells(num, w) == [r \in DOMAIN num |-> PadCell(num[r], w)]
ZeroPadCode(col, w) == ZeroPadCells(ToNumeric(col), w)

\* x / y of two cells that hold numbers or nulls: NaN where either is null,
\* NaN for 0/0, an infinity for a non-zero x over 0, rounded to `decimals`
\* (half to even) as Series.round does.
Pow10(d) == IF d = 0 THEN 1 ELSE IF d = 1 THEN 10 ELSE IF d = 2 THEN 100 ELSE IF d = 3 THEN 1000 ELSE 10000
Abs(k) == IF k < 0 THEN -k ELSE k
RoundHalfEven(num, den) ==
  IF 2 * (num % den) > den \/ (2 * (num % den) = den /\ (num \div den) % 2 = 1)
    THEN (num \div den) + 1 ELSE num \div den
Quotient(a, b, decimals) ==
  IF b = 0 THEN (IF a = 0 THEN Null ELSE InfV(IF a < 0 THEN -1 ELSE 1))
  ELSE FloatV((IF (a < 0) # (b < 0) THEN -1 ELSE 1)
                * RoundHalfEven(Abs(a) * Pow10(decimals), Abs(b))
                * (Scale \div Pow10(decimals)))
DivRound(x, y, decimals) ==
  IF IsNa(x) \/ IsNa(y) THEN Null
  ELSE IF x.t = "inf" /\ y.t = "inf" THEN Null
  ELSE IF x.t = "inf" THEN InfV(IF Scaled(y) < 0 THEN -x.n ELSE x.n)
  ELSE IF y.t = "inf" THEN FloatV(0)
  ELSE Quotient(Scaled(x), Scaled(y), decimals)

\* An arithmetic or ordering operator of Python applied to a text or a
\* timestamp and a number raises TypeError; pandas skips the rows where a
\* side is null.
ArithRaises(x, y) == NotNa(x) /\ NotNa(y) /\ ({x.t, y.t} \cap {"str", "date"} # {})

\* column > k, cell by cell: False for a null
GreaterThan(v, k) ==
  IF v.t = "inf" THEN BoolV(v.n > 0)
  ELSE IF v.t \in {"int", "float", "bool"} THEN BoolV(Scaled(v) > k * Scale)
  ELSE BoolV(FALSE)

\* --------------------------------------------------------- schema registry
\* _schemas(): per dataset the declared columns, each with the type pandera
\* coerces it to.  Every Column is nullable=True and, by pandera's default,
\* required.  The two RData datasets declare no column and no coercion.
SchemaKeys ==
  {"mat_annual", "mat_quarterly", "acs_5yr_estimates", "sud_recovery_facilities",
   "sud_recovery_facilities_geojson", "abgar_noabd", "core_set_mental_health",
   "managed_care_enrollment_report", "foster_care_entries_exits", "ffs_providers_profile",
   "certified_eligible_by_zip_sex", "nsduh", "nsumhss_2024"}
SudSchema ==
  << <<<<"O","B","J","E","C","T","I","D">>, "int">>, <<<<"C","o","u","n","t","y","_","C","o","d","e">>, "str">>, <<<<"L","e","g","a","l","_","E","n","t","i","t","y","_","N","a","m","e">>, "str">>,
     <<<<"F","a","c","i","l","i","t","y","_","N","a","m","e">>, "str">>, <<<<"F","a","c","i","l","i","t","y","_","C","i","t","y">>, "str">>, <<<<"F","a","c","i","l","i","t","y","_","S","t","a","t","e">>, "str">>,
     <<<<"F","a","c","i","l","i","t","y","_","Z","i","p">>, "str">>, <<<<"T","y","p","e","_","o","f","_","A","p","p","l","i","c","a","t","i","o","n">>, "str">>, <<<<"P","r","o","g","r","a","m","_","C","o","d","e">>, "str">>,
     <<Treatment_Capacity, "int">>, <<Total_Capacity, "int">>,
     <<<<"E","x","p","i","r","a","t","i","o","n","_","D","a","t","e">>, "str">>, <<<<"T","a","r","g","e","t","_","P","o","p","u","l","a","t","i","o","n">>, "str">>,
     <<<<"I","n","c","i","d","e","n","t","_","M","e","d","i","c","a","l","_","S","e","r","v","i","c","e","s">>, "str">>, <<<<"A","d","o","l","e","s","c","e","n","t","_","W","a","i","v","e","r">>, "str">>,
     <<<<"L","a","t","i","t","u","d","e">>, "float">>, <<<<"L","o","n","g","i","t","u","d","e">>, "float">>, <<CountyName, "str">> >>
FfsSchema ==
  <<
     <<<<"O","B","J","E","C","T","I","D">>, "int">>, <<<<"P","r","o","v","i","d","e","r","_","S","o","u","r","c","e">>, "str">>, <<<<"P","r","o","v","i","d","e","r","_","N","u","m","b","e","r">>, "str">>,
     <<<<"N","P","I">>, "str">>, <<<<"O","w","n","e","r","_","N","u","m","b","e","r">>, "str">>, <<<<"S","e","r","v","i","c","e","_","L","o","c","a","t","i","o","n","_","N","u","m","b","e","r">>, "str">>,
     <<<<"L","e","g","a","l","_","N","a","m","e">>, "str">>, <<<<"E","n","r","o","l","l","_","S","t","a","t","u","s","_","E","f","f","_","D","T">>, "str">>, <<<<"P","r","o","v","i","d","e","r","_","T","a","x","o","n","o","m","y">>, "str">>,
     <<<<"N","E","M","T","_","N","M","T","_","P","r","o","v","i","d","e","r","_","T","y","p","e">>, "str">>, <<<<"A","N","C","_","P","r","o","v","i","d","e","r","_","T","y","p","e">>, "str">>, <<<<"F","I","_","P","r","o","v","i","d","e","r","_","T","y","p","e","_","C","D">>, "str">>,
     <<<<"F","I","_","P","r","o","v","i","d","e","r","_","T","y","p","e">>, "str">>, <<<<"P","r","o","v","i","d","e","r","_","L","i","c","e","n","s","e">>, "str">>, <<<<"F","I","_","P","r","o","v","i","d","e","r","_","S","p","e","c","i","a","l","t","y","_","C","D">>, "str">>,
     <<<<"F","I","_","P","r","o","v","i","d","e","r","_","S","p","e","c","i","a","l","t","y">>, "str">>, <<<<"O","u","t","_","o","f","_","S","t","a","t","e","_","I","n","d","i","c","a","t","o","r">>, "str">>, <<<<"I","n","_","O","u","t","_","S","t","a","t","e">>, "str">>,
     <<<<"A","d","d","r","e","s","s","_","A","t","t","e","n","t","i","o","n">>, "str">>, <<<<"A","d","d","r","e","s","s">>, "str">>, <<<<"A","d","d","r","e","s","s","2">>, "str">>,
     <<<<"C","i","t","y">>, "str">>, <<<<"S","t","a","t","e">>, "str">>, <<<<"Z","I","P">>, "str">>,
     <<<<"Z","I","P","_","4">>, "str">>, <<<<"D","H","C","S","_","C","o","u","n","t","y","_","C","D">>, "str">>, <<<<"F","I","P","S","_","C","o","u","n","t","y","_","C","D">>, "str">>,
     <<<<"C","o","u","n","t","y">>, "str">>, <<<<"P","h","o","n","e","_","N","u","m","b","e","r">>, "str">>, <<<<"M","e","d","i","c","a","i","d","_","P","a","t","i","e","n","t","s">>, "str">>,
     <<<<"C","H","I","P","_","P","a","t","i","e","n","t","s">>, "str">>, <<<<"T","e","l","e","h","e","a","l","t","h","_","S","e","r","v","i","c","e","s">>, "str">>, <<<<"P","r","o","v","i","d","e","r","_","W","e","b","s","i","t","e">>, "str">>,
     <<<<"T","h","r","e","s","h","o","l","d","_","L","a","n","g","u","a","g","e","s">>, "str">>, <<<<"O","t","h","e","r","_","L","a","n","g","u","a","g","e","s">>, "str">>, <<<<"A","c","c","_","E","x","a","m","_","R","o","o","m">>, "str">>,
     <<<<"A","c","c","_","E","x","t","e","r","i","o","r","_","B","u","i","l","d","i","n","g">>, "str">>, <<<<"A","c","c","_","I","n","t","e","r","i","o","r","_","B","u","i","l","d","i","n","g">>, "str">>, <<<<"A","c","c","_","P","a","r","k","i","n","g">>, "str">>,
     <<<<"A","c","c","_","R","e","s","t","r","o","o","m">>, "str">>, <<<<"A","c","c","_","M","e","d","i","c","a","l","_","E","q","u","i","p","m","e","n","t">>, "str">>, <<<<"A","c","c","_","P","a","t","i","e","n","t","_","A","r","e","a","s">>, "str">>,
     <<<<"A","c","c","_","P","a","t","i","e","n","t","_","D","i","a","g","n","o","s","t","i","c">>, "str">>, <<<<"L","a","t","i","t","u","d","e">>, "float">>, <<<<"L","o","n","g","i","t","u","d","e">>, "float">>,
     <<<<"C","o","u","n","t","y","N","a","m","e">>, "str">> >>
Schema(key) ==
  CASE key = "mat_annual" ->
         << <<County, "str">>, <<<<"Y","e","a","r">>, "str">>,
            <<<<"M","e","d","i","c","a","t","i","o","n","_","A","s","s","i","s","t","e","d","_","T","r","e","a","t","m","e","n","t">>, "str">>, <<members, "str">>,
            <<<<"s","t","a","t","u","s">>, "str">>, <<<<"a","n","n","o","t","a","t","i","o","n">>, "str">>,
            <<<<"a","n","n","o","t","a","t","i","o","n","_","d","e","s","c","r","i","p","t","i","o","n">>, "str">> >>
    [] key = "mat_quarterly" ->
         << <<County, "str">>, <<<<"Y","e","a","r">>, "str">>, <<<<"Q","u","a","r","t","e","r">>, "str">>,
            <<<<"M","e","d","i","c","a","t","i","o","n","_","A","s","s","i","s","t","e","d","_","T","r","e","a","t","m","e","n","t">>, "str">>, <<members, "str">>,
            <<<<"s","t","a","t","u","s">>, "str">>, <<<<"a","n","n","o","t","a","t","i","o","n">>, "str">>,
            <<<<"a","n","n","o","t","a","t","i","o","n","_","d","e","s","c","r","i","p","t","i","o","n">>, "str">> >>
    [] key = "acs_5yr_estimates" ->
         << <<Label, "str">>, <<<<"V","a","l","u","e">>, "float">>, <<County, "str">> >>
    [] key \in {"sud_recovery_facilities", "sud_recovery_facilities_geojson"} -> SudSchema
    [] key = "abgar_noabd" ->
         << <<<<"R","e","p","o","r","t"," ","Y","e","a","r">>, "str">>, <<<<"G","e","o","g","r","a","p","h","y">>, "str">>,
            <<<<"N","o","t","i","c","e"," ","o","f"," ","A","d","v","e","r","s","e"," ","B","e","n","e","f","i","t"," ","D","e","t","e","r","m","i","n","a","t","i","o","n"," ","(","N","O","A","B","D",")"," ","C","a","t","e","g","o","r","y">>, "str">>, <<<<"N","o","t","i","c","e"," ","o","f"," ","A","d","v","e","r","s","e"," ","B","e","n","e","f","i","t"," ","D","e","t","e","r","m","i","n","a","t","i","o","n"," ","(","N","O","A","B","D",")"," ","I","s","s","u","e","d">>, "float">> >>
    [] key = "core_set_mental_health" ->
         << <<<<"M","e","a","s","u","r","e","_","Y","e","a","r">>, "str">>, <<<<"T","y","p","e">>, "str">>, <<<<"M","e","a","s","u","r","e">>, "str">>,
            <<<<"C","a","t","e","g","o","r","y">>, "str">>, <<<<"P","o","p","u","l","a","t","i","o","n">>, "str">>, <<<<"N","u","m","e","r","a","t","o","r">>, "str">>,
            <<<<"N","u","m","e","r","a","t","o","r","_","A","N","N","O","T">>, "str">>, <<<<"D","e","n","o","m","i","n","a","t","o","r">>, "str">>,
            <<<<"D","e","n","o","m","i","n","a","t","o","r","_","A","N","N","O","T">>, "str">>, <<<<"R","a","t","e">>, "str">>, <<<<"R","a","t","e","_","A","N","N","O","T">>, "str">> >>
    [] key = "foster_care_entries_exits" ->
         << <<<<"M","e","a","s","u","r","e"," ","n","u","m","b","e","r">>, "str">>, <<<<"M","e","a","s","u","r","e"," ","d","e","s","c","r","i","p","t","i","o","n">>, "str">>,
            <<<<"M","o","s","t"," ","r","e","c","e","n","t"," ","s","t","a","r","t"," ","d","a","t","e">>, "str">>, <<<<"M","o","s","t"," ","r","e","c","e","n","t"," ","e","n","d"," ","d","a","t","e">>, "str">>,
            <<<<"M","o","s","t"," ","r","e","c","e","n","t"," ","n","u","m","e","r","a","t","o","r">>, "float">>, <<<<"M","o","s","t"," ","r","e","c","e","n","t"," ","d","e","n","o","m","i","n","a","t","o","r">>, "float">>,
            <<<<"M","o","s","t"," ","r","e","c","e","n","t"," ","p","e","r","f","o","r","m","a","n","c","e">>, "float">>,
            <<<<"N","a","t","i","o","n","a","l"," ","p","e","r","f","o","r","m","a","n","c","e"," ","o","r"," ","g","o","a","l">>, "str">>, <<<<"D","e","s","i","r","e","d"," ","d","i","r","e","c","t","i","o","n">>, "str">>,
            <<<<"A","c","t","u","a","l"," ">> \o <<"\n">> \o <<"o","n","e","-","y","e","a","r"," ","d","i","r","e","c","t","i","o","n">>, "str">>,
            <<<<"O","n","e","-","y","e","a","r"," ","p","e","r","c","e","n","t"," ","c","h","a","n","g","e">>, "float">>,
            <<<<"E","x","t","e","r","n","a","l"," ","L","i","n","k","s"," ","t","o"," ","C","C","W","I","P"," ","O","n","l","i","n","e"," ","R","e","p","o","r","t","s">>, "str">> >>
    [] key = "managed_care_enrollment_report" ->
         << <<<<"E","n","r","o","l","l","m","e","n","t"," ","M","o","n","t","h">>, "str">>, <<<<"P","l","a","n"," ","T","y","p","e">>, "str">>,
            <<County, "str">>, <<<<"P","l","a","n"," ","N","a","m","e">>, "str">>,
            <<<<" ","C","o","u","n","t"," ","o","f"," ","E","n","r","o","l","l","e","e","s"," ">>, "float">>,
            <<<<"C","o","u","n","t"," ","o","f"," ","E","n","r","o","l","l","e","e","s"," ","A","n","n","o","t","a","t","i","o","n"," ","C","o","d","e">>, "str">>,
            <<<<"C","o","u","n","t"," ","o","f"," ","E","n","r","o","l","l","e","e","s"," ","A","n","n","o","t","a","t","i","o","n"," ","D","e","s","c","r","i","p","t","i","o","n">>, "str">> >>
    [] key = "ffs_providers_profile" -> FfsSchema
    [] key = "certified_eligible_by_zip_sex" -> << <<<<"z","i","p","_","c","o","d","e">>, "str">> >>
    [] OTHER -> <<>>

\* ------------------------------------------------------------- normalizer
TitleCell(v) == StrV(Title(ToStr(v)))
ZFill5Cell(v) == StrV(ZFill(ToStr(v), 5))
RStripPercentCell(v) == StrV(RStrip(ToStr(v), "%"))
RemoveCommaCell(v) == StrV(RemoveChar(ToStr(v), ","))

\* df[c] = pd.to_numeric(df[c], errors='coerce'), when the column is present
NumericColumn(df, c) ==
  IF HasColumn(df, c) THEN SetColumn(df, c, ToNumeric(Column(df, c))) ELSE df
\* df[c] = the column as zero-padded codes of width w, when it is present
CodeColumn(df, c, w) ==
  IF HasColumn(df, c) THEN SetColumn(df, c, ZeroPadCode(Column(df, c), w)) ELSE df

\* The rules process_all applies to every dataset that has the column.
GenericRules(df) ==
  With(With(With(With(With(With(
    MapColumn(df, <<"c","o","u","n","t","y">>, TitleCell),
    LAMBDA d : MapColumn(d, CountyName, TitleCell)),
    LAMBDA d : MapColumn(d, <<"z","i","p","_","c","o","d","e">>, ZFill5Cell)),
    LAMBDA d : CodeColumn(d, <<"F","a","c","i","l","i","t","y","_","Z","i","p">>, 5)),
    LAMBDA d : CodeColumn(d, <<"Z","I","P">>, 5)),
    LAMBDA d : NumericColumn(d, <<"L","a","t","i","t","u","d","e">>)),
    LAMBDA d : NumericColumn(d, <<"L","o","n","g","i","t","u","d","e">>))

\* ffs_providers_profile: names in title case, ZIP_4 as a four-digit code,
\* Phone_Number as the digits of its number, Enroll_Status_Eff_DT as a date.
DatetimeColumn(df, c) ==
  IF HasColumn(df, c)
    THEN SetColumn(df, c, [r \in DOMAIN df.rows |-> ToDatetimeCell(Column(df, c)[r])])
    ELSE df
FfsRule(df) ==
  With(With(With(With(With(
    MapColumn(df, County, TitleCell),
    LAMBDA d : MapColumn(d, CountyName, TitleCell)),
    LAMBDA d : MapColumn(d, <<"C","i","t","y">>, TitleCell)),
    LAMBDA d : CodeColumn(d, <<"Z","I","P","_","4">>, 4)),
    LAMBDA d : CodeColumn(d, <<"P","h","o","n","e","_","N","u","m","b","e","r">>, 0)),
    LAMBDA d : DatetimeColumn(d, <<"E","n","r","o","l","l","_","S","t","a","t","u","s","_","E","f","f","_","D","T">>))

\* acs_5yr_estimates: the first two columns become Label and Value, Value is
\* read as a number without its thousands separators, County is the text of the
\* second column's label before its first comma, rows without a label go.
AcsRename(df) ==
  [df EXCEPT !.cols =
     [i \in DOMAIN df.cols |->
        IF df.cols[i] = df.cols[2] THEN StrV(<<"V","a","l","u","e">>)
        ELSE IF df.cols[i] = df.cols[1] THEN StrV(Label)
        ELSE df.cols[i]]]
AcsValue(df) ==
  SetColumn(df, <<"V","a","l","u","e">>,
    ToNumeric([r \in DOMAIN df.rows |-> RemoveCommaCell(Column(df, <<"V","a","l","u","e">>)[r])]))
AcsCounty(df, county_name) ==
  SetColumn(df, County, [r \in DOMAIN df.rows |-> StrV(county_name)])
AcsDropUnlabelled(df) ==
  SelectRows(df, {r \in DOMAIN df.rows : NotNa(Column(df, Label)[r])})
AcsRule(df) ==
  IF Len(df.cols) < 2 THEN df
  ELSE With(With(With(
         AcsRename(df),
         AcsValue),
         LAMBDA d : AcsCounty(d, Strip(BeforeFirst(ToStr(df.cols[2]), ",")))),
         AcsDropUnlabelled)

\* Both facility datasets: County_Code padded to two digits, Expiration_Date
\* parsed, Facility_City and CountyName title-cased.
SudCommonRule(df) ==
  With(With(With(
    CodeColumn(df, <<"C","o","u","n","t","y","_","C","o","d","e">>, 2),
    LAMBDA d : MapColumn(d, <<"E","x","p","i","r","a","t","i","o","n","_","D","a","t","e">>, ToDatetimeCell)),
    LAMBDA d : MapColumn(d, <<"F","a","c","i","l","i","t","y","_","C","i","t","y">>, TitleCell)),
    LAMBDA d : MapColumn(d, CountyName, TitleCell))

\* df['Treatment_Capacity'] / df['Total_Capacity'] raises TypeError on a text
\* cell, and so does df['Total_Capacity'] > 50.
DivisionRaises(df) ==
  /\ HasColumn(df, Treatment_Capacity) /\ HasColumn(df, Total_Capacity)
  /\ \E r \in DOMAIN df.rows :
       ArithRaises(Column(df, Treatment_Capacity)[r], Column(df, Total_Capacity)[r])
ComparisonRaises(df) ==
  /\ HasColumn(df, Total_Capacity)
  /\ \E r \in DOMAIN df.rows : Column(df, Total_Capacity)[r].t \in {"str", "date"}
SudDerivedRaises(df) == DivisionRaises(df) \/ ComparisonRaises(df)

\* The ratio kept to one decimal only.
CapacityUtilizationOneDecimal(treatment, total) == DivRound(treatment, total, 1)
\* (Treatment_Capacity / Total_Capacity).round(2)
CapacityUtilization(treatment, total) == DivRound(treatment, total, 2)
\* Total_Capacity > 50
LargeFacility(total) == GreaterThan(total, 50)
\* Expiration_Date.dt.year: int64 when no date is missing, else float64.
ExpirationYear(col) ==
  LET float == \E r \in DOMAIN col : IsNa(col[r])
  IN  [r \in DOMAIN col |->
         IF IsNa(col[r]) THEN Null
         ELSE IF float THEN FloatV((col[r].n \div 10000) * Scale)
         ELSE IntV(col[r].n \div 10000)]

\* sud_recovery_facilities only: the derived columns, each assigned in place
\* unless the statement that computes it raises, which ends the rule.
SudUtilization(df) ==
  IF HasColumn(df, Treatment_Capacity) /\ HasColumn(df, Total_Capacity)
    THEN SetColumn(df, Capacity_Utilization,
           [r \in DOMAIN df.rows |->
              CapacityUtilization(Column(df, Treatment_Capacity)[r],
                                  Column(df, Total_Capacity)[r])])
    ELSE df
SudExpirationYear(df) ==
  IF HasColumn(df, <<"E","x","p","i","r","a","t","i","o","n","_","D","a","t","e">>)
    THEN SetColumn(df, <<"E","x","p","i","r","a","t","i","o","n","_","Y","e","a","r">>, ExpirationYear(Column(df, <<"E","x","p","i","r","a","t","i","o","n","_","D","a","t","e">>)))
    ELSE df
SudLargeFacility(df) ==
  IF HasColumn(df, Total_Capacity)
    THEN SetColumn(df, Large_Facility,
           [r \in DOMAIN df.rows |-> LargeFacility(Column(df, Total_Capacity)[r])])
    ELSE df
SudDerivedRule(df) ==
  IF DivisionRaises(df) THEN df
  ELSE IF ComparisonRaises(df) THEN With(SudUtilization(df), SudExpirationYear)
  ELSE With(With(SudUtilization(df), SudExpirationYear), SudLargeFacility)

\* core_set_mental_health: '%' stripped from the end of Rate, ',' removed from
\* Numerator and Denominator; the cells stay text.
CoreSetRule(df) ==
  With(With(
    MapColumn(df, <<"R","a","t","e">>, RStripPercentCell),
    LAMBDA d : MapColumn(d, <<"N","u","m","e","r","a","t","o","r">>, RemoveCommaCell)),
    LAMBDA d : MapColumn(d, <<"D","e","n","o","m","i","n","a","t","o","r">>, RemoveCommaCell))

\* The member counts with every missing value filled in as 0.
ZeroForNull(v) == IF IsNa(v) THEN IntV(0) ELSE v
MatRuleFillZero(df) ==
  With(With(NumericColumn(df, members),
    LAMBDA d : MapColumn(d, members, ZeroForNull)),
    LAMBDA d : MapColumn(d, <<"Y","e","a","r">>, AsTypeStr))
\* mat_annual, mat_quarterly: members read as a number, a suppressed value
\* becoming NaN; Year as text.
MatRule(df) ==
  With(NumericColumn(df, members), LAMBDA d : MapColumn(d, <<"Y","e","a","r">>, AsTypeStr))

\* ------------------------------------------------ foster_care_entries_exits
\* `needle in text`
Contains(x, needle) ==
  \E i \in 1..(Len(x) - Len(needle) + 1) : SubSeq(x, i, i + Len(needle) - 1) = needle
Lower(x) == [i \in DOMAIN x |-> ToLower(x[i])]
\* Series.str.contains(pat, case=False) for a pattern without metacharacters
ContainsIgnoreCase(x, pat) == Contains(Lower(x), Lower(pat))
\* row.astype(str).str.contains('Measure number', case=False, na=False).any()
IsHeaderRow(df, r) ==
  \E c \in DOMAIN df.rows[r] : ContainsIgnoreCase(ToStr(df.rows[r][c]), <<"M","e","a","s","u","r","e"," ","n","u","m","b","e","r">>)
\* A scan that settles for the first row whatever it holds.
FirstRow(df) == IF NRows(df) > 0 THEN 1 ELSE 0
\* header_row: the position of the first such row, 0 for None
HeaderRow(df) ==
  IF \E r \in DOMAIN df.rows : IsHeaderRow(df, r)
    THEN CHOOSE r \in DOMAIN df.rows :
           IsHeaderRow(df, r) /\ \A q \in 1..(r - 1) : ~IsHeaderRow(df, q)
    ELSE 0
\* reset_index(drop=True)
ResetIndex(df) == [df EXCEPT !.index = [i \in DOMAIN df.rows |-> i - 1]]
\* df.columns = df.loc[header_row]; the frame dfs still refers to
Renamed(df, h) == [df EXCEPT !.cols = df.rows[h]]
\* A promotion that keeps the header row among the data: df.loc[header_row:].
PromoteKeepingHeader(df, h) ==
  ResetIndex(SelectRows(Renamed(df, h),
                        {p \in DOMAIN df.rows : df.index[p] >= df.index[h]}))
\* df = df.loc[header_row + 1:].reset_index(drop=True)
PromoteHeader(df, h) ==
  ResetIndex(SelectRows(Renamed(df, h),
                        {p \in DOMAIN df.rows : df.index[p] >= df.index[h] + 1}))
FosterHeaderRule(df) ==
  IF HasColumn(df, <<"M","e","a","s","u","r","e"," ","n","u","m","b","e","r">>) THEN df
  ELSE With(HeaderRow(df), LAMBDA h : IF h = 0 THEN df ELSE PromoteHeader(df, h))
\* What dfs[key] refers to once the header rule has run.
FosterHeld(df) ==
  IF HasColumn(df, <<"M","e","a","s","u","r","e"," ","n","u","m","b","e","r">>) THEN df
  ELSE With(HeaderRow(df), LAMBDA h : IF h = 0 THEN df ELSE Renamed(df, h))
FosterRule(df) ==
  With(With(With(FosterHeaderRule(df),
    LAMBDA d : NumericColumn(d, <<"M","o","s","t"," ","r","e","c","e","n","t"," ","n","u","m","e","r","a","t","o","r">>)),
    LAMBDA d : NumericColumn(d, <<"M","o","s","t"," ","r","e","c","e","n","t"," ","d","e","n","o","m","i","n","a","t","o","r">>)),
    LAMBDA d : NumericColumn(d, <<"M","o","s","t"," ","r","e","c","e","n","t"," ","p","e","r","f","o","r","m","a","n","c","e">>))

\* df['Rate'] = (numerator / denominator).round(4)
FosterRate(df) ==
  IF HasColumn(df, <<"M","o","s","t"," ","r","e","c","e","n","t"," ","n","u","m","e","r","a","t","o","r">>) /\ HasColumn(df, <<"M","o","s","t"," ","r","e","c","e","n","t"," ","d","e","n","o","m","i","n","a","t","o","r">>)
    THEN SetColumn(df, <<"R","a","t","e">>,
           [r \in DOMAIN df.rows |->
              DivRound(Column(df, <<"M","o","s","t"," ","r","e","c","e","n","t"," ","n","u","m","e","r","a","t","o","r">>)[r],
                       Column(df, <<"M","o","s","t"," ","r","e","c","e","n","t"," ","d","e","n","o","m","i","n","a","t","o","r">>)[r], 4)])
    ELSE df
\* float(text) / 100 for a text without exponent: a number of at most two
\* decimals is divided exactly, 'inf' and 'infinity' read as infinities and
\* anything float() rejects (ValueError) gives None.
PercentOf(p, x) ==
  IF p.ok THEN FloatV((IF p.n < 0 THEN -1 ELSE 1) * RoundHalfEven(Abs(p.n), 100))
  ELSE IF Lower(x) \in {<<"i","n","f">>, <<"+","i","n","f">>, <<"i","n","f","i","n","i","t","y">>, <<"+","i","n","f","i","n","i","t","y">>} THEN InfV(1)
  ELSE IF Lower(x) \in {<<"-","i","n","f">>, <<"-","i","n","f","i","n","i","t","y">>} THEN InfV(-1)
  ELSE Null
PercentOfText(x) == PercentOf(ParseNum(x), x)
parse_percentage(val) ==
  IF IsNa(val) THEN Null
  ELSE IF val.t \in {"int", "float", "inf", "bool"} THEN val
  ELSE PercentOfText(RStrip(Strip(ToStr(val)), "%"))
\* The flag that takes a change of exactly 0.05 for a notable one.
OneYearChangeFlagInclusive(x) ==
  IF IsNa(x) THEN BoolV(FALSE)
  ELSE IF x.t = "inf" THEN BoolV(TRUE)
  ELSE BoolV(20 * Abs(Scaled(x)) >= Scale)
\* lambda x: abs(x) > 0.05 if pd.notna(x) else False
OneYearChangeFlag(x) ==
  IF IsNa(x) THEN BoolV(FALSE)
  ELSE IF x.t = "inf" THEN BoolV(TRUE)
  ELSE BoolV(20 * Abs(Scaled(x)) > Scale)
FosterChange(df) ==
  SetColumn(df, <<"O","n","e","-","y","e","a","r"," ","p","e","r","c","e","n","t"," ","c","h","a","n","g","e">>,
            AsFloat64([r \in DOMAIN df.rows |->
                         parse_percentage(Column(df, <<"O","n","e","-","y","e","a","r"," ","p","e","r","c","e","n","t"," ","c","h","a","n","g","e">>)[r])]))
FosterFlag(df) ==
  SetColumn(df, <<"O","n","e","Y","e","a","r","C","h","a","n","g","e","F","l","a","g">>,
            [r \in DOMAIN df.rows |->
               OneYearChangeFlag(Column(df, <<"O","n","e","-","y","e","a","r"," ","p","e","r","c","e","n","t"," ","c","h","a","n","g","e">>)[r])])
FosterDerivedRule(df) ==
  With(FosterRate(df), LAMBDA d :
    IF HasColumn(d, <<"O","n","e","-","y","e","a","r"," ","p","e","r","c","e","n","t"," ","c","h","a","n","g","e">>) THEN FosterFlag(FosterChange(d)) ELSE d)

\* The cleaning part of one iteration of process_all.  raised: an exception
\* left the iteration (nothing in process_all catches it); df: the table the
\* iteration holds when it reaches validation, or held when it raised.
AfterDerived(key, df) ==
  With(With(With(
    IF key = "sud_recovery_facilities" THEN SudDerivedRule(df) ELSE df,
    LAMBDA d : IF key = "core_set_mental_health" THEN CoreSetRule(d) ELSE d),
    LAMBDA d : IF key \in {"mat_annual", "mat_quarterly"} THEN MatRule(d) ELSE d),
    LAMBDA d : IF key = "foster_care_entries_exits" THEN FosterDerivedRule(d) ELSE d)
\* raised: an exception left the rules; df: the local table of the iteration;
\* held: the table dfs[key] refers to, which the rules assign in place except
\* where df = df.rename(...) or df = df.loc[...] rebinds df to a copy.
Normalized(key, before, after) ==
  [raised |-> key = "sud_recovery_facilities" /\ SudDerivedRaises(before),
   df |-> after,
   held |-> IF \/ key = "acs_5yr_estimates" /\ Len(before.cols) >= 2
               \/ key = "foster_care_entries_exits" /\ NRows(before) # NRows(after)
              THEN before ELSE after]
Normalize(key, df) ==
  With(GenericRules(df), LAMBDA g :
    With(IF key = "ffs_providers_profile" THEN FfsRule(g)
         ELSE IF key = "acs_5yr_estimates" THEN AcsRule(g)
         ELSE IF key \in {"sud_recovery_facilities", "sud_recovery_facilities_geojson"}
           THEN SudCommonRule(g)
         ELSE IF key = "foster_care_entries_exits" THEN FosterRule(g)
         ELSE g,
      LAMBDA d : Normalized(key,
                            IF key = "acs_5yr_estimates" THEN g
                            ELSE IF key = "foster_care_entries_exits" THEN FosterHeld(g)
                            ELSE d,
                            AfterDerived(key, d))))

\* -------------------------------------------------------- schema validator
\* pandera's coercion of one cell to a declared type.  str keeps a null and
\* prints anything else; float reads text as float() does; int cannot hold a
\* null or an infinity, reads text as int() does and truncates a float.
CoerceParsed(p, v, dtype) ==
  IF dtype = "float" THEN [ok |-> p.ok, v |-> IF p.ok THEN FloatV(p.n) ELSE v]
  ELSE [ok |-> p.ok /\ p.int, v |-> IF p.ok /\ p.int THEN IntV(p.n \div Scale) ELSE v]
CoerceCell(v, dtype) ==
  IF dtype = "str" THEN [ok |-> TRUE, v |-> IF IsNa(v) THEN Null ELSE AsTypeStr(v)]
  ELSE IF v.t = "str" THEN CoerceParsed(ParseNum(v.s), v, dtype)
  ELSE IF dtype = "float"
    THEN (IF v.t \in {"int", "bool"} THEN [ok |-> TRUE, v |-> FloatV(Scaled(v))]
          ELSE [ok |-> v.t # "date", v |-> v])
  ELSE (IF v.t \in {"int", "float", "bool"} THEN [ok |-> TRUE, v |-> IntV(IntOf(v))]
        ELSE [ok |-> FALSE, v |-> v])

\* The failure cases pandera collects under lazy=True: a declared column that
\* is absent (index -1), and every cell that cannot be coerced, with the
\* column name and the row's index label.
FailureCases(sch, df) ==
  {[column |-> sch[i][1], index |-> -1] :
     i \in {j \in DOMAIN sch : ~HasColumn(df, sch[j][1])}}
  \cup
  {[column |-> sch[p[1]][1], index |-> df.index[p[2]]] :
     p \in {q \in (DOMAIN sch) \X (DOMAIN df.rows) :
              /\ HasColumn(df, sch[q[1]][1])
              /\ ~CoerceCell(Column(df, sch[q[1]][1])[q[2]], sch[q[1]][2]).ok}}

CoerceColumn(df, c, dtype) ==
  SetColumn(df, c, [r \in DOMAIN df.rows |-> CoerceCell(Column(df, c)[r], dtype).v])
RECURSIVE CoerceColumns(_, _, _)
CoerceColumns(df, sch, i) ==
  IF i > Len(sch) THEN df
  ELSE With(CoerceColumn(df, sch[i][1], sch[i][2]),
            LAMBDA d : CoerceColumns(d, sch, i + 1))

\* The validation step of one iteration of process_all:
\*   if key in schemas and len(df) > 0:
\*       try: df = schemas[key].validate(df, lazy=True)
\*       except SchemaErrors as e: logger.error(... e.failure_cases)
\* ran: validate was called; failed: it raised SchemaErrors, which is caught so
\* that df stays the table it was; failure_cases: what the handler logs.
Validated(sch, df, fc) ==
  IF fc # {}
    THEN [ran |-> TRUE, failed |-> TRUE, failure_cases |-> fc, df |-> df]
    ELSE [ran |-> TRUE, failed |-> FALSE, failure_cases |-> {},
          df |-> CoerceColumns(df, sch, 1)]
\* Validation that does not skip an empty table.
ValidateEmpty(key, df) ==
  IF key \notin SchemaKeys
    THEN [ran |-> FALSE, failed |-> FALSE, failure_cases |-> {}, df |-> df]
    ELSE With(Schema(key), LAMBDA sch :
           With(FailureCases(sch, df), LAMBDA fc : Validated(sch, df, fc)))
Validate(key, df) ==
  IF key \notin SchemaKeys \/ NRows(df) = 0
    THEN [ran |-> FALSE, failed |-> FALSE, failure_cases |-> {}, df |-> df]
    ELSE With(Schema(key), LAMBDA sch :
           With(FailureCases(sch, df), LAMBDA fc : Validated(sch, df, fc)))

\* ------------------------------------------------------------ county filter
\* county_filters of _filter_by_county: the county column and the accepted
\* values of each dataset that is filtered.
FilterKeys ==
  {"ffs_providers_profile", "acs_5yr_estimates", "sud_recovery_facilities",
   "sud_recovery_facilities_geojson", "abgar_grievances", "abgar_appeals",
   "abgar_expedited_appeals", "abgar_noabd", "mat_annual", "mat_quarterly"}
CountyColumn(key) ==
  CASE key \in {"ffs_providers_profile", "acs_5yr_estimates", "mat_annual", "mat_quarterly"}
         -> County
    [] key \in {"sud_recovery_facilities", "sud_recovery_facilities_geojson"}
         -> CountyName
    [] OTHER -> <<"G","e","o","g","r","a","p","h","y">>
AcceptableValues(key) ==
  CASE key \in {"ffs_providers_profile", "sud_recovery_facilities",
                "sud_recovery_facilities_geojson"} -> {StrV(Calaveras)}
    [] key = "acs_5yr_estimates" -> {StrV(Calaveras), StrV(<<"C","a","l","a","v","e","r","a","s"," ","C","o","u","n","t","y">>)}
    [] key \in {"mat_annual", "mat_quarterly"} -> {StrV(Calaveras), StrV(<<"S","t","a","t","e","w","i","d","e">>)}
    [] OTHER -> {StrV(Calaveras), StrV(<<"S","t","a","t","e">>)}

\* df[df[county_col].isin(acceptable_values)]
IsIn(v, values) == v \in values

\* _filter_by_county(df, dataset_key).  warned: the county column is missing
\* and a warning is logged; df: the table returned.
\* The filter that hands back the table it was given.
KeepAll(df, county_col, acceptable_values) == df
\* The filter that hands back the accepted rows last to first.
KeepAcceptedReversed(df, county_col, acceptable_values) ==
  With(Positions({r \in DOMAIN df.rows : IsIn(Column(df, county_col)[r], acceptable_values)},
                 1, NRows(df)),
       LAMBDA ps : TakeRows(df, [i \in DOMAIN ps |-> ps[Len(ps) + 1 - i]]))
KeepAccepted(df, county_col, acceptable_values) ==
  SelectRows(df, {r \in DOMAIN df.rows : IsIn(Column(df, county_col)[r], acceptable_values)})
\* A filter applied to every table that has a County column, whatever the key.
FilterAnyCounty(df, key) ==
  IF HasColumn(df, County)
    THEN [warned |-> FALSE, df |-> SelectRows(df, {r \in DOMAIN df.rows : Column(df, County)[r] = StrV(Calaveras)})]
    ELSE [warned |-> FALSE, df |-> df]
FilterByCounty(df, key) ==
  IF NRows(df) = 0 THEN [warned |-> FALSE, df |-> df]
  ELSE IF key \notin FilterKeys THEN [warned |-> FALSE, df |-> df]
  ELSE IF ~HasColumn(df, CountyColumn(key)) THEN [warned |-> TRUE, df |-> df]
  ELSE [warned |-> FALSE, df |-> KeepAccepted(df, CountyColumn(key), AcceptableValues(key))]

\* ------------------------------------------------------------------ loader
\* What a locator points at.  exists: os.path.exists; format: what the bytes
\* really are, whatever the name says; lines: the lines of a delimited text,
\* each a sequence of text fields; frame: the table in a workbook sheet, a
\* parquet file, the first object of an R container or the property bags of a
\* feature collection; sheets: the workbook's sheet names; objects: how many
\* objects the R container holds; geometry: whether the features carry one.
File(exists, format, lines, frame, sheets, objects, geometry) ==
  [exists |-> exists, format |-> format, lines |-> lines, frame |-> frame,
   sheets |-> sheets, objects |-> objects, geometry |-> geometry]

\* A decoder's outcome: raised, or the object it returns.  kind "dict" is the
\* {sheet name: DataFrame} that read_excel returns for sheet_name=None, n its
\* len().
Raised == [raised |-> TRUE, kind |-> "none", df |-> EmptyDataFrame, n |-> 0]
Frame(df) == [raised |-> FALSE, kind |-> "frame", df |-> df, n |-> NRows(df)]

\* The strings read_csv takes for a missing value.
NaValues ==
  {<<>>, <<"#","N","/","A">>, <<"#","N","/","A"," ","N","/","A">>, <<"#","N","A">>, <<"-","1",".","#","I","N","D">>, <<"-","1",".","#","Q","N","A","N">>, <<"-","N","a","N">>, <<"-","n","a","n">>,
   <<"1",".","#","I","N","D">>, <<"1",".","#","Q","N","A","N">>, <<"<","N","A",">">>, <<"N","/","A">>, <<"N","A">>, <<"N","U","L","L">>, <<"N","a","N">>, <<"N","o","n","e">>, <<"n","/","a">>,
   <<"n","a","n">>, <<"n","u","l","l">>}

\* read_csv's type inference for one column of text fields: int64 when every
\* field reads as an integer, float64 when every field that is not missing
\* reads as a number, else the fields stay text; a missing field is NaN.
InferParsed(fields, parsed) ==
  IF \E r \in DOMAIN fields : fields[r] \notin NaValues /\ ~parsed[r].ok
    THEN [r \in DOMAIN fields |->
            IF fields[r] \in NaValues THEN Null ELSE StrV(fields[r])]
  ELSE IF \A r \in DOMAIN fields : fields[r] \notin NaValues /\ parsed[r].int
    THEN [r \in DOMAIN fields |-> IntV(parsed[r].n \div Scale)]
  ELSE [r \in DOMAIN fields |->
          IF fields[r] \in NaValues THEN Null ELSE FloatV(parsed[r].n)]
InferColumn(fields) ==
  InferParsed(fields, [r \in DOMAIN fields |-> ParseNum(fields[r])])

\* pd.read_csv(source, skiprows=k): the first line left is the header, the
\* others the rows, indexed from 0.  Bytes that are no delimited text, or no
\* line at all, raise.
CsvFrame(header, cols, nrows) ==
  [cols |-> [c \in DOMAIN header |-> StrV(header[c])],
   index |-> [r \in 1..nrows |-> r - 1],
   rows |-> [r \in 1..nrows |-> [c \in DOMAIN header |-> cols[c][r]]]]
CsvLines(header, body) ==
  CsvFrame(header,
           [c \in DOMAIN header |-> InferColumn([r \in DOMAIN body |-> body[r][c]])],
           Len(body))
ReadCsv(file, skiprows) ==
  IF file.format # "csv" \/ Len(file.lines) <= skiprows THEN Raised
  ELSE Frame(CsvLines(file.lines[skiprows + 1],
                      SubSeq(file.lines, skiprows + 2, Len(file.lines))))

\* pd.read_parquet(source, engine='pyarrow')
ReadParquet(file) == IF file.format # "parquet" THEN Raised ELSE Frame(file.frame)

\* pd.read_excel(source, sheet_name=name); name "" stands for sheet_name=None,
\* which returns every sheet in a dict.  A sheet the workbook lacks raises.
ReadExcel(file, name) ==
  IF file.format # "xlsx" THEN Raised
  ELSE IF name = <<>>
    THEN [raised |-> FALSE, kind |-> "dict", df |-> EmptyDataFrame,
          n |-> Cardinality(file.sheets)]
  ELSE IF name \notin file.sheets THEN Raised
  ELSE Frame(file.frame)

\* pd.read_excel(source): the first sheet.
ReadExcelFirst(file) ==
  IF file.format # "xlsx" \/ file.sheets = {} THEN Raised ELSE Frame(file.frame)

\* The .geojson branch: each feature's properties are a row, with
\* geometry_type and geometry_coordinates added.  A feature whose geometry is
\* JSON null makes geom.get raise AttributeError.
GeometryType(geometry) == IF geometry = "point" THEN StrV(<<"P","o","i","n","t">>) ELSE Null
GeometryCoordinates(geometry) ==
  IF geometry = "point" THEN [t |-> "list", n |-> 0, s |-> <<"[","0",","," ","0","]">>]
  ELSE Null
ReadGeoJson(file) ==
  IF file.format # "geojson" \/ file.geometry = "null" THEN Raised
  ELSE Frame(With(SetColumn(file.frame, <<"g","e","o","m","e","t","r","y","_","t","y","p","e">>,
                    [r \in DOMAIN file.frame.rows |-> GeometryType(file.geometry)]),
                  LAMBDA d : SetColumn(d, <<"g","e","o","m","e","t","r","y","_","c","o","o","r","d","i","n","a","t","e","s">>,
                    [r \in DOMAIN d.rows |-> GeometryCoordinates(file.geometry)])))

\* pyreadr.read_r(source), then the first object, or pd.DataFrame() when the
\* container holds none.
ReadRData(file) ==
  IF file.format # "rdata" THEN Raised
  ELSE IF file.objects = 0 THEN Frame(EmptyDataFrame)
  ELSE Frame(file.frame)

\* The sheet load_data asks read_excel for, by dataset.
SheetName(key) ==
  IF key = "acs_5yr_estimates" THEN <<"D","a","t","a">>
  ELSE IF key = "foster_care_entries_exits" THEN <<"C","W","S","O","u","t","c","o","m","e","s">>
  ELSE <<>>

\* What a call of load_data does.  kind "none": it returns None; propagated:
\* an exception leaves it instead; http: the HTTP requests it issued; events:
\* what it logged, in order, as <<level, message>>.
LoadResult(kind, df, n, http, events) ==
  [kind |-> kind, df |-> df, n |-> n, propagated |-> FALSE, http |-> http,
   events |-> events]
LoadNone(http, events) == LoadResult("none", EmptyDataFrame, 0, http, events)
\* What the call would do if a decoder's exception were not caught.
LoadPropagates(http, events) ==
  [kind |-> "none", df |-> EmptyDataFrame, n |-> 0, propagated |-> TRUE,
   http |-> http, events |-> events]

\* The end of the try block without its handler: a decoder's exception leaves.
LoadDecodedUncaught(dec, http, events) ==
  IF dec.raised
    THEN LoadPropagates(http, events)
    ELSE LoadResult(dec.kind, dec.df, dec.n, http,
                    events \o << <<"info", "loaded_rows">> >>)
\* The end of the try block without the record of the rows loaded.
LoadDecodedSilent(dec, http, events) ==
  IF dec.raised
    THEN LoadNone(http, events \o << <<"error", "failed_to_load">> >>)
    ELSE LoadResult(dec.kind, dec.df, dec.n, http, events)
\* The end of load_data's try block: a decoder's exception is caught by
\* `except Exception`, logged and turned into None; otherwise the row count
\* is logged and the object returned.
LoadDecoded(dec, http, events) ==
  IF dec.raised
    THEN LoadNone(http, events \o << <<"error", "failed_to_load">> >>)
    ELSE LoadResult(dec.kind, dec.df, dec.n, http,
                    events \o << <<"info", "loaded_rows">> >>)

\* The branch of the if/elif chain a locator's suffix selects.
Suffix(source, etl) ==
  IF EndsWith(source, <<".","p","a","r","q","u","e","t">>) THEN "parquet"
  ELSE IF EndsWith(source, <<".","x","l","s","x">>) \/ EndsWith(source, <<".","x","l","s">>) THEN "excel"
  ELSE IF etl /\ EndsWith(source, <<".","g","e","o","j","s","o","n">>) THEN "geojson"
  ELSE IF etl /\ (EndsWith(source, <<".","r","d","a","t","a">>) \/ EndsWith(source, <<".","r","d","a">>)) THEN "rdata"
  ELSE IF etl /\ EndsWith(source, <<".","t","x","t">>) THEN "txt"
  ELSE "csv"
IsManual(source) == StartsWith(source, <<"m","a","n","u","a","l",":">>) \/ StartsWith(source, <<"r","e","s","t","r","i","c","t","e","d",":">>)
IsRemote(source) == StartsWith(source, <<"h","t","t","p",":","/","/">>) \/ StartsWith(source, <<"h","t","t","p","s",":","/","/">>)

\* The decoder each branch of etl/download.py load_data calls.
Decode(branch, key, file) ==
  CASE branch = "parquet" -> ReadParquet(file)
    [] branch = "excel" -> ReadExcel(file, SheetName(key))
    [] branch = "geojson" -> ReadGeoJson(file)
    [] branch = "rdata" -> ReadRData(file)
    [] OTHER -> ReadCsv(file, IF branch = "csv" /\ key = "core_set_mental_health"
                                THEN 1 ELSE 0)

\* etl/download.py load_data(source, key); file is what source points at and
\* pyreadr says whether the optional package can be imported.
LoadLocal(branch, key, file, pyreadr, ev) ==
  IF ~file.exists THEN LoadNone(0, ev \o << <<"error", "file_not_found">> >>)
  ELSE IF branch = "rdata" /\ ~pyreadr
    THEN LoadNone(0, ev \o << <<"error", "pyreadr_required">> >>)
  ELSE IF branch = "rdata" /\ file.format = "rdata" /\ file.objects = 0
    THEN LoadResult("frame", EmptyDataFrame, 0, 0,
                    ev \o << <<"warning", "rdata_no_objects">> >>)
  ELSE LoadDecoded(Decode(branch, key, file), 0, ev)
load_data(source, key, file, pyreadr) ==
  IF IsManual(source) THEN LoadNone(0, << <<"warning", "manual_or_restricted">> >>)
  ELSE IF IsRemote(source) THEN LoadNone(0, << <<"warning", "remote_disabled">> >>)
  ELSE LoadLocal(Suffix(source, TRUE), key, file, pyreadr,
                 << <<"info", "loading_local">> >>)

\* The decoder each branch of src/data_acquisition/download.py load_data calls.
DecodeSrc(branch, file) ==
  CASE branch = "parquet" -> ReadParquet(file)
    [] branch = "excel" -> ReadExcelFirst(file)
    [] OTHER -> ReadCsv(file, 0)

\* src/data_acquisition/download.py load_data(source).  A remote locator is
\* fetched with requests.get: net tells whether the request succeeds, and
\* file is then the body of the response.
load_data_src(source, file, net) ==
  IF IsManual(source) THEN LoadNone(0, << <<"warning", "manual_or_restricted">> >>)
  ELSE IF IsRemote(source)
    THEN (IF ~net THEN LoadNone(1, << <<"info", "downloading">>,
                                      <<"error", "failed_to_load">> >>)
          ELSE LoadDecoded(DecodeSrc(Suffix(source, FALSE), file), 1,
                           << <<"info", "downloading">> >>))
  ELSE IF ~file.exists
    THEN LoadNone(0, << <<"info", "loading_local">>, <<"error", "file_not_found">> >>)
  ELSE LoadDecoded(DecodeSrc(Suffix(source, FALSE), file), 0,
                   << <<"info", "loading_local">> >>)

\* ------------------------------------------------------------ source registry
\* DATA_SOURCES of etl/config.py, for the datasets the run below goes through,
\* and the order in which the dict holds them.
DATA_SOURCES ==
  [ managed_care_provider_listing |->
      <<"m","a","n","u","a","l",":","h","t","t","p","s",":","/","/","d","a","t","a",".","c","h","h","s",".","c","a",".","g","o","v","/","d","a","t","a","s","e","t","/","m","e","d","i","-","c","a","l","-","m","a","n","a","g","e","d","-","c","a","r","e","-","p","r","o","v","i","d","e","r","-","l","i","s","t","i","n","g","/","r","e","s","o","u","r","c","e","/","x","x","x","x","-","x","x","x","x",".","c","s","v">>,
    sud_recovery_facilities |->
      <<"e","t","l","/","d","o","w","n","l","o","a","d","s","/","S","U","D","_","R","e","c","o","v","e","r","y","_","T","r","e","a","t","m","e","n","t","_","F","a","c","i","l","i","t","i","e","s",".","c","s","v">>,
    mat_annual |->
      <<"e","t","l","/","d","o","w","n","l","o","a","d","s","/","m","a","t","/","m","e","d","i","c","a","t","i","o","n","-","a","s","s","i","s","t","e","d","-","t","r","e","a","t","m","e","n","t","-","i","n","-","m","e","d","i","-","c","a","l","-","f","o","r","-","o","p","i","o","i","d","-","u","s","e","-","d","i","s","o","r","d","e","r","s","-","a","n","n","u","a","l","l","y",".","c","s","v">> ]

Registry == <<"managed_care_provider_listing", "sud_recovery_facilities", "mat_annual">>
RegistryKeys == Range(Registry)

\* DATASET_PROCESSING of etl/datasets.py: the datasets that have notes.
DATASET_PROCESSING ==
  {"cigarette_use_prevalence", "tobacco_use_prevalence", "lanterman_petris_short_data",
   "crisis_service_utilization_ocw", "managed_care_enrollment_report", "nsumhss_2024"}

\* --------------------------------------------------------------- sample inputs
\* The most data rows a sample file or table holds.
MaxRows == 2

\* The sequences of at most k elements of S.
RECURSIVE SeqsUpTo(_, _)
Extend(shorter, S, k) ==
  shorter \cup {Append(q, x) : q \in {p \in shorter : Len(p) = k - 1}, x \in S}
SeqsUpTo(S, k) == IF k = 0 THEN {<<>>} ELSE Extend(SeqsUpTo(S, k - 1), S, k)

NoFile == File(FALSE, "none", <<>>, EmptyDataFrame, {}, 0, "absent")
CorruptFile == File(TRUE, "corrupt", <<>>, EmptyDataFrame, {}, 0, "absent")
CsvFile(lines) == File(TRUE, "csv", lines, EmptyDataFrame, {}, 0, "absent")

\* Delimited-text files a facility-capacity source may be: the header and up to
\* MaxRows rows, among them a zero capacity, an upper-case county and a
\* capacity withheld as '*'.
SudHeader == <<CountyName, Treatment_Capacity, Total_Capacity>>
SudLines ==
  { <<<<"C","a","l","a","v","e","r","a","s">>, <<"3","0">>, <<"0">>>>,
    <<<<"C","A","L","A","V","E","R","A","S">>, <<"4","0">>, <<"5","0">>>>,
    <<<<"C","a","l","a","v","e","r","a","s">>, <<"*">>, <<"5","0">>>> }
\* Files a medication-treatment source may be, among them an observed 0 and a
\* member count suppressed as '*'.
MatHeader ==
  <<County, <<"Y","e","a","r">>, <<"M","e","d","i","c","a","t","i","o","n","_","A","s","s","i","s","t","e","d","_","T","r","e","a","t","m","e","n","t">>, members, <<"s","t","a","t","u","s">>,
    <<"a","n","n","o","t","a","t","i","o","n">>, <<"a","n","n","o","t","a","t","i","o","n","_","d","e","s","c","r","i","p","t","i","o","n">>>>
MatLines ==
  { <<<<"C","a","l","a","v","e","r","a","s">>, <<"2","0","2","0">>, <<"B">>, <<"0">>, <<"o","k">>, <<>>, <<>>>>,
    <<<<"C","a","l","a","v","e","r","a","s">>, <<"2","0","2","1">>, <<"B">>, <<"*">>, <<"s">>, <<"1">>, <<"x">>>>,
    <<<<"A","l","p","i","n","e">>, <<"2","0","2","0">>, <<"N">>, <<"5">>, <<"o","k">>, <<>>, <<>>>>,
    <<<<"S","t","a","t","e","w","i","d","e">>, <<"2","0","2","0">>, <<"B">>, <<"1","2">>, <<"o","k">>, <<>>, <<>>>> }
CsvFiles(header, lines) == {CsvFile(<<header>> \o q) : q \in SeqsUpTo(lines, MaxRows)}
SampleFiles(key) ==
  IF key = "sud_recovery_facilities" THEN {NoFile, CorruptFile} \cup CsvFiles(SudHeader, SudLines)
  ELSE IF key = "mat_annual" THEN {NoFile, CorruptFile} \cup CsvFiles(MatHeader, MatLines)
  ELSE {NoFile}

\* ---------------------------------------------------------------- exporters
\* ILLEGAL_CHARACTERS_RE of export_to_excel, as far as the text alphabet of the
\* samples goes: the form feed (\014).
IllegalCharacters == {"\f"}
clean_for_excel(v) ==
  IF v.t = "str" THEN StrV(SelectSeq(v.s, LAMBDA c : c \notin IllegalCharacters)) ELSE v

\* A column pandas holds with dtype object: one with a text or list cell.
IsObjectColumn(df, c) == \E r \in DOMAIN df.rows : df.rows[r][c].t \in {"str", "list"}

\* non_empty_dfs = {k: v for k, v in dfs.items() if len(v) > 0}
NonEmpty(tables) == {k \in DOMAIN tables : NRows(tables[k]) > 0}

\* The table export_to_parquet writes: every object column as text.
ParquetClean(df) ==
  [df EXCEPT !.rows =
     [r \in DOMAIN df.rows |->
        [c \in DOMAIN df.cols |->
           IF IsObjectColumn(df, c) THEN AsTypeStr(df.rows[r][c]) ELSE df.rows[r][c]]]]
\* The table export_to_excel writes: illegal characters stripped from text.
ExcelClean(df) ==
  [df EXCEPT !.rows =
     [r \in DOMAIN df.rows |->
        [c \in DOMAIN df.cols |->
           IF IsObjectColumn(df, c) THEN clean_for_excel(df.rows[r][c]) ELSE df.rows[r][c]]]]

\* df.to_csv(out_path, index=False): a line of column names, then a line per
\* row; a missing value is written as the empty field, any other as str prints
\* it.
CsvField(v) == IF IsNa(v) THEN <<>> ELSE ToStr(v)
to_csv(df) ==
  <<[c \in DOMAIN df.cols |-> CsvField(df.cols[c])]>>
    \o [r \in DOMAIN df.rows |-> [c \in DOMAIN df.cols |-> CsvField(df.rows[r][c])]]
\* os.path.join(output_dir, f"{key}.csv"), of which load_data reads the suffix.
CsvPath == <<"o","u","t","p","u","t","_","c","s","v","/","k","e","y",".","c","s","v">>

\* What a directory, database or workbook holds after the artifacts of the
\* non-empty tables are written over what it held, the writes of the
\* datasets in failing having raised.
Written(old, tables, failing, f(_)) ==
  [k \in (DOMAIN old) \cup (NonEmpty(tables) \ failing) |->
     IF k \in NonEmpty(tables) \ failing THEN f(tables[k]) ELSE old[k]]
Same(df) == df

\* -------------------------------------------------------------------- state
VARIABLES
  pc,       \* where main() is: the function it is in, or done / aborted / export_aborted
  idx,      \* the position of a loop over the datasets in the registry
  stage,    \* inside an iteration of process_all: normalize, validate, filter
  files,    \* what each dataset's locator points at
  logfile,  \* whether the log file can be opened and written
  pyreadr,  \* whether the optional package pyreadr can be imported
  dfs,      \* the dict dataset -> DataFrame that load_all builds and process_all updates
  df,       \* the local df of process_all's loop body
  log,      \* the diagnostics emitted, in order
  http,     \* the number of HTTP requests issued
  csv,      \* output_csv: dataset -> the table in its .csv file
  parquet,  \* output_parquet: dataset -> the table in its .parquet file
  excel,    \* the workbook: dataset -> the table in its sheet
  sqlite,   \* output_data.sqlite: dataset -> its table
  run,      \* the number of the run of main() under way, from 1
  exports,  \* what the exporters of this run did so far, in order
  call,     \* a single call of load_data: its arguments
  ret,      \* what that call did
  skey,     \* a single dataset taken through the stages of process_all
  sraw,     \* the table it was loaded as
  sdf,      \* the table it is now
  sprev,    \* the table it was before the last step
  ssteps,   \* the steps applied to it, in order
  sres      \* what the last step reported

mainVars ==
  <<pc, idx, stage, files, logfile, pyreadr, dfs, df, log, http, csv, parquet, excel, sqlite, run, exports>>
loadVars == <<call, ret>>
stageVars == <<skey, sraw, sdf, sprev, ssteps, sres>>
vars == <<mainVars, loadVars, stageVars>>

NoTables == [k \in {} |-> EmptyDataFrame]
Event(key, level, msg) == [key |-> key, level |-> level, msg |-> msg, cases |-> {}]
KeyEvents(key, events) == [e \in DOMAIN events |-> Event(key, events[e][1], events[e][2])]

MainIdle ==
  /\ pc = "idle" /\ idx = 0 /\ stage = "none"
  /\ files = NoTables /\ logfile = "writable" /\ pyreadr = TRUE
  /\ dfs = NoTables /\ df = EmptyDataFrame /\ log = <<>> /\ http = 0
  /\ csv = NoTables /\ parquet = NoTables /\ excel = NoTables /\ sqlite = NoTables
  /\ run = 0 /\ exports = <<>>
NoCall == [source |-> <<>>, key |-> "none", file |-> NoFile, pyreadr |-> FALSE, net |-> FALSE]
NotCalled ==
  [impl |-> "none", kind |-> "none", df |-> EmptyDataFrame, n |-> 0,
   propagated |-> FALSE, http |-> 0, events |-> <<>>]
LoadIdle == call = NoCall /\ ret = NotCalled
NoReport ==
  [raised |-> FALSE, failed |-> FALSE, warned |-> FALSE, unavailable |-> FALSE,
   failure_cases |-> {}]
StageIdle ==
  /\ skey = "none" /\ sraw = EmptyDataFrame /\ sdf = EmptyDataFrame
  /\ sprev = EmptyDataFrame /\ ssteps = <<>> /\ sres = NoReport

\* ------------------------------------------------------------ the run of main
\* What the log file may be when the program starts: a file that can be
\* opened for appending, or one that cannot.
LogFiles == {"writable", "unopenable"}
\* The state main() starts in: the source files are whatever the operator
\* staged, nothing is loaded, the output locations are empty.
Init ==
  /\ pc = "get_logger" /\ idx = 1 /\ stage = "none"
  /\ logfile \in LogFiles
  /\ files \in {(Registry[1] :> a) @@ (Registry[2] :> b) @@ (Registry[3] :> c) :
                  a \in SampleFiles(Registry[1]), b \in SampleFiles(Registry[2]),
                  c \in SampleFiles(Registry[3])}
  /\ pyreadr \in BOOLEAN
  /\ dfs = NoTables /\ df = EmptyDataFrame /\ log = <<>> /\ http = 0
  /\ csv = NoTables /\ parquet = NoTables /\ excel = NoTables /\ sqlite = NoTables
  /\ run = 1 /\ exports = <<>>
  /\ LoadIdle /\ StageIdle

\* logger = get_logger('etl.main', log_file=LOG_FILE), and the get_logger of
\* every module main imports, run before main(): logging.FileHandler(log_file)
\* opens the file and its exception is not handled.
GetLogger ==
  /\ pc = "get_logger"
  /\ pc' = IF logfile = "unopenable" THEN "logger_aborted" ELSE "load_all"
  /\ UNCHANGED <<idx, stage, files, logfile, pyreadr, dfs, df, log, http, csv, parquet, excel, sqlite, run, exports, loadVars, stageVars>>

\* One iteration of load_all's loop: load_data, then the table or, for None,
\* the empty placeholder is stored under the key.
Stored(res) == IF res.kind = "none" THEN EmptyDataFrame ELSE res.df
\* The iteration of a loop that stores nothing when load_data returns None.
LoadOneAvailable ==
  /\ pc = "load_all"
  /\ \E key \in {Registry[idx]} :
       \E res \in {load_data(DATA_SOURCES[key], key, files[key], pyreadr)} :
         /\ log' = log \o KeyEvents(key, res.events)
         /\ http' = http + res.http
         /\ dfs' = IF res.kind = "none" THEN dfs
                   ELSE [k \in (DOMAIN dfs) \cup {key} |-> IF k = key THEN res.df ELSE dfs[k]]
         /\ IF idx < Len(Registry)
              THEN idx' = idx + 1 /\ pc' = pc
              ELSE idx' = 1 /\ pc' = "validate_and_summarize"
  /\ UNCHANGED <<stage, files, logfile, pyreadr, df, csv, parquet, excel, sqlite, run, exports, loadVars, stageVars>>
LoadOne ==
  /\ pc = "load_all"
  /\ \E key \in {Registry[idx]} :
       \E res \in {load_data(DATA_SOURCES[key], key, files[key], pyreadr)} :
         /\ log' = log \o KeyEvents(key, res.events)
         /\ http' = http + res.http
         /\ IF res.propagated
              THEN pc' = "aborted" /\ UNCHANGED <<idx, dfs>>
              ELSE /\ dfs' = [k \in (DOMAIN dfs) \cup {key} |->
                               IF k = key THEN Stored(res) ELSE dfs[k]]
                   /\ IF idx < Len(Registry)
                        THEN idx' = idx + 1 /\ pc' = pc
                        ELSE idx' = 1 /\ pc' = "validate_and_summarize"
  /\ UNCHANGED <<stage, files, logfile, pyreadr, df, csv, parquet, excel, sqlite, run, exports, loadVars, stageVars>>

\* validate_and_summarize(dfs): a summary of every table is logged; an empty
\* one is reported with a warning.  Nothing is changed.
ValidateAndSummarize ==
  /\ pc = "validate_and_summarize"
  /\ log' = log \o [i \in DOMAIN Registry |->
                      IF NRows(dfs[Registry[i]]) = 0
                        THEN Event(Registry[i], "warning", "is_empty")
                        ELSE Event(Registry[i], "info", "summary")]
  /\ pc' = "process_all" /\ idx' = 1 /\ stage' = "normalize"
  /\ UNCHANGED <<files, logfile, pyreadr, dfs, df, http, csv, parquet, excel, sqlite, run, exports, loadVars, stageVars>>

\* The iteration with its cleaning rules left out.
ProcessNormalizeSkipped ==
  /\ pc = "process_all" /\ stage = "normalize"
  /\ df' = dfs[Registry[idx]]
  /\ stage' = "validate"
  /\ UNCHANGED <<pc, idx, files, logfile, pyreadr, dfs, log, http, csv, parquet, excel, sqlite, run, exports, loadVars, stageVars>>

\* The cleaning rules of one iteration of process_all.  They assign columns of
\* the DataFrame that dfs holds, so dfs shows them at once, except where
\* acs_5yr_estimates rebinds df to a renamed copy.  An exception ends the run.
ProcessNormalize ==
  /\ pc = "process_all" /\ stage = "normalize"
  /\ \E key \in {Registry[idx]} :
       \E res \in {Normalize(key, dfs[key])} :
         /\ df' = res.df
         /\ dfs' = [dfs EXCEPT ![key] = res.held]
         /\ IF res.raised
              THEN pc' = "aborted" /\ stage' = stage
              ELSE pc' = pc /\ stage' = "validate"
  /\ UNCHANGED <<idx, files, logfile, pyreadr, log, http, csv, parquet, excel, sqlite, run, exports, loadVars, stageVars>>

\* The schema validation of the iteration; SchemaErrors is caught and its
\* failure cases are logged.
ProcessValidate ==
  /\ pc = "process_all" /\ stage = "validate"
  /\ \E key \in {Registry[idx]} :
       \E res \in {Validate(key, df)} :
         /\ df' = res.df
         /\ log' = IF res.failed
                     THEN Append(log, [key |-> key, level |-> "error",
                                       msg |-> "schema_validation_failed",
                                       cases |-> res.failure_cases])
                     ELSE log
  /\ stage' = "filter"
  /\ UNCHANGED <<pc, idx, files, logfile, pyreadr, dfs, http, csv, parquet, excel, sqlite, run, exports, loadVars, stageVars>>

\* What the rest of the iteration logs: the processing notes, the filter's
\* warning and the row counts when the filter dropped rows.
FilterEvents(key, res, before) ==
  (IF key \in DATASET_PROCESSING THEN <<Event(key, "info", "processing_notes")>> ELSE <<>>)
    \o (IF res.warned THEN <<Event(key, "warning", "county_column_not_found")>> ELSE <<>>)
    \o (IF NRows(res.df) # before THEN <<Event(key, "info", "calaveras_filter")>> ELSE <<>>)

\* The rest of the iteration: the processing notes, the county filter, and
\* dfs[key] = df.
ProcessFilter ==
  /\ pc = "process_all" /\ stage = "filter"
  /\ \E key \in {Registry[idx]} :
       \E res \in {FilterByCounty(df, key)} :
         /\ dfs' = [dfs EXCEPT ![key] = res.df]
         /\ df' = res.df
         /\ log' = log \o FilterEvents(key, res, NRows(df))
  /\ IF idx < Len(Registry)
       THEN idx' = idx + 1 /\ stage' = "normalize" /\ pc' = pc
       ELSE idx' = 1 /\ stage' = "none" /\ pc' = "export_to_csv"
  /\ UNCHANGED <<files, logfile, pyreadr, http, csv, parquet, excel, sqlite, run, exports, loadVars, stageVars>>

\* The most exporter faults (a directory that cannot be made, a write that
\* raises) the environment produces in one run.
MaxFaults == 1
\* What one exporter did: the datasets it wrote and those whose write raised.
Export(format, outcome, keys, failed) ==
  [format |-> format, outcome |-> outcome, keys |-> keys, failed |-> failed]
Faults == Cardinality({i \in DOMAIN exports : exports[i].outcome # "ok"})
\* The sets of datasets whose write may raise in a per-file exporter.
Failing == {{}} \cup (IF Faults < MaxFaults THEN {{k} : k \in NonEmpty(dfs)} ELSE {})
\* The non-empty datasets from k on, in the order the dict holds them.
Position(k) == CHOOSE i \in DOMAIN Registry : Registry[i] = k
FromOn(k) == {j \in NonEmpty(dfs) : Position(j) >= Position(k)}
ExportErrors(failing) ==
  [i \in 1..Cardinality(failing) |->
     Event(CHOOSE k \in failing : TRUE, "error", "failed_to_export")]
Outcome(failing) == IF failing = {} THEN "ok" ELSE "error"

\* export_to_csv(processed, "output_csv"): one file per non-empty table.  A
\* to_csv that raises is logged and the loop goes on; os.makedirs is outside
\* any handler, so its exception leaves main().
ExportToCsv ==
  /\ pc = "export_to_csv"
  /\ \/ /\ Faults < MaxFaults
        /\ pc' = "export_aborted"
        /\ exports' = Append(exports, Export("csv", "raised", {}, {}))
        /\ UNCHANGED <<csv, log>>
     \/ \E failing \in Failing :
          /\ csv' = Written(csv, dfs, failing, Same)
          /\ log' = log \o ExportErrors(failing)
          /\ exports' = Append(exports, Export("csv", Outcome(failing), NonEmpty(dfs) \ failing, failing))
          /\ pc' = "export_to_parquet"
  /\ UNCHANGED <<idx, stage, files, logfile, pyreadr, dfs, df, http, parquet, excel, sqlite, run, loadVars, stageVars>>

\* An exporter that turns the object columns into text in the tables it was
\* given, not in copies of them.
ExportToParquetInPlace ==
  /\ pc = "export_to_parquet"
  /\ dfs' = [k \in DOMAIN dfs |-> ParquetClean(dfs[k])]
  /\ parquet' = Written(parquet, dfs, {}, ParquetClean)
  /\ exports' = Append(exports, Export("parquet", "ok", NonEmpty(dfs), {}))
  /\ pc' = "export_to_excel"
  /\ UNCHANGED <<idx, stage, files, logfile, pyreadr, df, log, http, csv, excel, sqlite, run, loadVars, stageVars>>

\* export_to_parquet(processed, "output_parquet"): as export_to_csv, the text
\* conversion of object columns being done on df.copy().
ExportToParquet ==
  /\ pc = "export_to_parquet"
  /\ \/ /\ Faults < MaxFaults
        /\ pc' = "export_aborted"
        /\ exports' = Append(exports, Export("parquet", "raised", {}, {}))
        /\ UNCHANGED <<parquet, log>>
     \/ \E failing \in Failing :
          /\ parquet' = Written(parquet, dfs, failing, ParquetClean)
          /\ log' = log \o ExportErrors(failing)
          /\ exports' = Append(exports, Export("parquet", Outcome(failing), NonEmpty(dfs) \ failing, failing))
          /\ pc' = "export_to_excel"
  /\ UNCHANGED <<idx, stage, files, logfile, pyreadr, dfs, df, http, csv, excel, sqlite, run, loadVars, stageVars>>

\* export_to_excel(processed, OUTPUT_EXCEL): ExcelWriter starts a new workbook.
\* When the workbook cannot be opened for writing the exception is caught and
\* logged, by export_to_excel itself, and the file is left as it was.  The one
\* handler is around the whole loop: a to_excel that raises ends the loop, and
\* the writer, closed on the way out, saves the sheets written until then.
ExportToExcel ==
  /\ pc = "export_to_excel"
  /\ \/ /\ Faults < MaxFaults
        /\ log' = Append(log, Event("none", "error", "failed_to_export"))
        /\ exports' = Append(exports, Export("excel", "error", {}, {}))
        /\ excel' = excel
     \/ /\ Faults < MaxFaults
        /\ \E k \in NonEmpty(dfs) :
             /\ excel' = Written(NoTables, dfs, FromOn(k), ExcelClean)
             /\ exports' = Append(exports, Export("excel", "error", NonEmpty(dfs) \ FromOn(k), {k}))
        /\ log' = Append(log, Event("none", "error", "failed_to_export"))
     \/ /\ excel' = Written(NoTables, dfs, {}, ExcelClean)
        /\ exports' = Append(exports, Export("excel", "ok", NonEmpty(dfs), {}))
        /\ log' = log
  /\ pc' = "export_to_sqlite"
  /\ UNCHANGED <<idx, stage, files, logfile, pyreadr, dfs, df, http, csv, parquet, sqlite, run, loadVars, stageVars>>

\* export_to_sqlite(processed, "output_data.sqlite"): if_exists='replace'.  An
\* exception of sqlite3.connect is caught and logged.  So is one of to_sql,
\* by the same handler around the whole loop: the tables written until then
\* stay, the datasets after the one that failed are not written.
ExportToSqlite ==
  /\ pc = "export_to_sqlite"
  /\ \/ /\ Faults < MaxFaults
        /\ log' = Append(log, Event("none", "error", "failed_to_export"))
        /\ exports' = Append(exports, Export("sqlite", "error", {}, {}))
        /\ sqlite' = sqlite
     \/ /\ Faults < MaxFaults
        /\ \E k \in NonEmpty(dfs) :
             /\ sqlite' = Written(sqlite, dfs, FromOn(k), Same)
             /\ exports' = Append(exports, Export("sqlite", "error", NonEmpty(dfs) \ FromOn(k), {k}))
        /\ log' = Append(log, Event("none", "error", "failed_to_export"))
     \/ /\ sqlite' = Written(sqlite, dfs, {}, Same)
        /\ exports' = Append(exports, Export("sqlite", "ok", NonEmpty(dfs), {}))
        /\ log' = log
  /\ pc' = "done"
  /\ UNCHANGED <<idx, stage, files, logfile, pyreadr, dfs, df, http, csv, parquet, excel, run, loadVars, stageVars>>

Next ==
  \/ GetLogger
  \/ LoadOne
  \/ ValidateAndSummarize
  \/ ProcessNormalize
  \/ ProcessValidate
  \/ ProcessFilter
  \/ ExportToCsv
  \/ ExportToParquet
  \/ ExportToExcel
  \/ ExportToSqlite

Spec == Init /\ [][Next]_vars

\* ------------------------------------------------------ one call of load_data
\* Locators a caller may pass: the refused prefixes, remote ones, and a local
\* path for each suffix the loaders look at (and one they do not: upper case).
Locators ==
  { <<"m","a","n","u","a","l",":","h","t","t","p","s",":","/","/","h","/","a",".","c","s","v">>, <<"r","e","s","t","r","i","c","t","e","d",":","a",".","c","s","v">>,
    <<"h","t","t","p",":","/","/","h","/","a",".","c","s","v">>, <<"h","t","t","p","s",":","/","/","h","/","a",".","p","a","r","q","u","e","t">>, <<"h","t","t","p","s",":","/","/","h","/","a",".","x","l","s","x">>,
    <<"d","/","a",".","c","s","v">>, <<"d","/","a",".","p","a","r","q","u","e","t">>, <<"d","/","a",".","x","l","s","x">>, <<"d","/","a",".","x","l","s">>, <<"d","/","a",".","g","e","o","j","s","o","n">>,
    <<"d","/","a",".","r","d","a","t","a">>, <<"d","/","a",".","r","d","a">>, <<"d","/","A",".","R","D","a","t","a">>, <<"d","/","a",".","t","x","t">> }
LoadKeys == {"acs_5yr_estimates", "foster_care_entries_exits", "core_set_mental_health", "nsduh"}

\* What a locator may point at: nothing, bytes no decoder reads, and a
\* well-formed file of each format.
OneRow == [cols |-> <<StrV(County)>>, index |-> <<0>>, rows |-> << <<StrV(Calaveras)>> >>]
Workbook(sheets) == File(TRUE, "xlsx", <<>>, OneRow, sheets, 0, "absent")
Features(geometry) == File(TRUE, "geojson", <<>>, OneRow, {}, 0, geometry)
RContainer(objects) == File(TRUE, "rdata", <<>>, OneRow, {}, objects, "absent")
LoadFiles ==
  { NoFile, CorruptFile, CsvFile(<<>>),
    CsvFile(<< <<<<"T","i","t","l","e">>>>, <<County>>, <<Calaveras>> >>),
    File(TRUE, "parquet", <<>>, OneRow, {}, 0, "absent"),
    Workbook({<<"D","a","t","a">>}), Workbook({<<"C","W","S","O","u","t","c","o","m","e","s">>, <<"N","o","t","e","s">>}), Workbook({<<"S","h","e","e","t","1">>}),
    Features("point"), Features("absent"), Features("null"),
    RContainer(0), RContainer(1) }

InitLoad ==
  /\ MainIdle /\ StageIdle
  /\ call \in [source : Locators, key : LoadKeys, file : LoadFiles,
               pyreadr : BOOLEAN, net : BOOLEAN]
  /\ ret = NotCalled

Returned(impl, res) == [impl |-> impl] @@ res

\* etl/download.py: load_data(source, key)
CallLoadData ==
  /\ call # NoCall /\ ret = NotCalled
  /\ ret' = Returned("etl", load_data(call.source, call.key, call.file, call.pyreadr))
  /\ UNCHANGED <<call, mainVars, stageVars>>

\* src/data_acquisition/download.py: load_data(source)
CallLoadDataSrc ==
  /\ call # NoCall /\ ret = NotCalled
  /\ ret' = Returned("src", load_data_src(call.source, call.file, call.net))
  /\ UNCHANGED <<call, mainVars, stageVars>>

NextLoad ==
  \/ CallLoadData
  \/ CallLoadDataSrc

SpecLoad == InitLoad /\ [][NextLoad]_vars

\* ------------------------------------- one dataset through process_all's body
\* Tables the loader hands over, by dataset: delimited text as read_csv types
\* it, workbook sheets as read_excel does.
StageSudLines ==
  SudLines \cup
  { <<<<"A","l","p","i","n","e">>, <<"2">>, <<"5","1">>>>,
    <<<<"C","a","l","a","v","e","r","a","s">>, <<"1">>, <<>>>>,
    <<<<"C","a","l","a","v","e","r","a","s">>, <<"2">>, <<"3">>>> }
NoabdHeader == <<<<"R","e","p","o","r","t"," ","Y","e","a","r">>, <<"G","e","o","g","r","a","p","h","y">>, <<"N","o","t","i","c","e"," ","o","f"," ","A","d","v","e","r","s","e"," ","B","e","n","e","f","i","t"," ","D","e","t","e","r","m","i","n","a","t","i","o","n"," ","(","N","O","A","B","D",")"," ","C","a","t","e","g","o","r","y">>, <<"N","o","t","i","c","e"," ","o","f"," ","A","d","v","e","r","s","e"," ","B","e","n","e","f","i","t"," ","D","e","t","e","r","m","i","n","a","t","i","o","n"," ","(","N","O","A","B","D",")"," ","I","s","s","u","e","d">>>>
NoabdLines ==
  { <<<<"2","0","2","3">>, <<"C","a","l","a","v","e","r","a","s">>, <<"A">>, <<"1","2">>>>,
    <<<<"2","0","2","3">>, <<"S","t","a","t","e">>, <<"A">>, <<"a","b","c">>>>,
    <<<<"2","0","2","3">>, <<"A","l","p","i","n","e">>, <<"B">>, <<"7",".","5">>>> }
CoreSetHeader == <<<<"R","a","t","e">>, <<"N","u","m","e","r","a","t","o","r">>, <<"D","e","n","o","m","i","n","a","t","o","r">>>>
CoreSetLines ==
  { <<<<"1","2",".","5","%">>, <<"1",",","2","3","4">>, <<"5",",","0","0","0">>>>,
    <<<<>>, <<"1","0">>, <<"2","0">>>> }
AcsColumns == <<StrV(Label), StrV(<<"C","a","l","a","v","e","r","a","s"," ","C","o","u","n","t","y",","," ","C","a","l","i","f","o","r","n","i","a">>)>>
AcsRows ==
  { <<StrV(<<"T","o","t","a","l">>), StrV(<<"4","5",",","0","0","0">>)>>,
    <<StrV(<<"W","h","i","t","e">>), IntV(12)>>,
    <<Null, IntV(5)>> }
EnrollmentHeader == <<County, <<"P","l","a","n"," ","N","a","m","e">>>>
EnrollmentLines ==
  { <<<<"A","l","p","i","n","e">>, <<"A">>>>,
    <<<<"C","a","l","a","v","e","r","a","s">>, <<"B">>>> }
\* Provider and facility files with postal codes: five digits, four digits
\* that lost a leading zero, a code that is no number, a missing one.
FfsHeader == <<County, <<"Z","I","P">>, <<"Z","I","P","_","4">>>>
FfsLines ==
  { <<<<"C","a","l","a","v","e","r","a","s">>, <<"9","5","2","2","2">>, <<"1","2","3">>>>,
    <<<<"C","a","l","a","v","e","r","a","s">>, <<"a","b","c">>, <<"1","2","a">>>>,
    <<<<"C","a","l","a","v","e","r","a","s">>, <<"5","2","2","2">>, <<>>>> }
ZipHeader == <<<<"z","i","p","_","c","o","d","e">>>>
ZipLines == { <<<<"5","2","2","2">>>>, <<<<"a","b","c">>>>, <<<<"N","A">>>> }
FacilityZipHeader == <<CountyName, <<"F","a","c","i","l","i","t","y","_","Z","i","p">>>>
FacilityZipLines == { <<<<"C","a","l","a","v","e","r","a","s">>, <<"5","2","2","2">>>>, <<<<"C","a","l","a","v","e","r","a","s">>, <<"9","5","2","2","X">>>> }
Sheet(cols, rows) ==
  [cols |-> cols, index |-> [r \in DOMAIN rows |-> r - 1], rows |-> rows]
\* Sheets a foster-care workbook may hold.  Read with its header in place:
\* percent changes with and without a sign, exactly 5%, unreadable, missing,
\* and one stored as a number.
FosterColumns ==
  <<StrV(<<"M","e","a","s","u","r","e"," ","n","u","m","b","e","r">>), StrV(<<"M","o","s","t"," ","r","e","c","e","n","t"," ","n","u","m","e","r","a","t","o","r">>),
    StrV(<<"M","o","s","t"," ","r","e","c","e","n","t"," ","d","e","n","o","m","i","n","a","t","o","r">>), StrV(<<"O","n","e","-","y","e","a","r"," ","p","e","r","c","e","n","t"," ","c","h","a","n","g","e">>)>>
FosterRows ==
  { <<StrV(<<"P","1">>), IntV(10), IntV(40), StrV(<<"5",".","2","%">>)>>,
    <<StrV(<<"P","2">>), StrV(<<"7">>), IntV(0), StrV(<<"-","3","%">>)>>,
    <<StrV(<<"P","3">>), Null, IntV(5), StrV(<<"5","%">>)>>,
    <<StrV(<<"P","4">>), IntV(1), IntV(3), StrV(<<"a","b","c">>)>>,
    <<StrV(<<"P","5">>), IntV(2), IntV(4), Null>>,
    <<StrV(<<"S","1">>), IntV(1), IntV(2), StrV(<<"-","1","2",".","5","%">>)>> }
\* Read with a title above the header: the columns are the title and pandas'
\* name for an unnamed column.
TitledColumns == <<StrV(<<"C","F","S","R"," ","O","u","t","c","o","m","e","s">>), StrV(<<"U","n","n","a","m","e","d",":"," ","1">>)>>
TitleRow == <<StrV(<<"N","o","r","t","h","e","r","n"," ","R","e","g","i","o","n">>), Null>>
LowerCaseTitleRow == <<StrV(<<"R","a","t","e","s"," ","b","y"," ","m","e","a","s","u","r","e"," ","n","u","m","b","e","r">>), Null>>
BlankRow == <<Null, Null>>
TrueHeaderRow == <<StrV(<<"M","e","a","s","u","r","e"," ","n","u","m","b","e","r">>), StrV(<<"O","n","e","-","y","e","a","r"," ","p","e","r","c","e","n","t"," ","c","h","a","n","g","e">>)>>
DataRows == << <<StrV(<<"P","1">>), StrV(<<"5",".","2","%">>)>>, <<StrV(<<"P","2">>), StrV(<<"-","3","%">>)>> >>
FosterSheets ==
  { Sheet(TitledColumns, <<TitleRow, BlankRow, TrueHeaderRow>> \o DataRows),
    Sheet(TitledColumns, <<TrueHeaderRow>> \o DataRows),
    Sheet(TitledColumns, <<TitleRow, TrueHeaderRow>>),
    Sheet(TitledColumns, <<LowerCaseTitleRow, BlankRow, TrueHeaderRow>> \o DataRows),
    Sheet(TitledColumns, <<LowerCaseTitleRow>> \o DataRows),
    Sheet(TitledColumns, <<TitleRow, BlankRow>> \o DataRows),
    Sheet(TitledColumns, DataRows),
    Sheet(TitledColumns, <<>>) }
Tables(header, lines) == {ReadCsv(f, 0).df : f \in CsvFiles(header, lines)}
StageKeys ==
  {"sud_recovery_facilities", "mat_annual", "abgar_noabd", "core_set_mental_health",
   "acs_5yr_estimates", "managed_care_enrollment_report", "foster_care_entries_exits",
   "ffs_providers_profile", "certified_eligible_by_zip_sex"}
StageTables(key) ==
  CASE key = "sud_recovery_facilities" ->
         Tables(SudHeader, StageSudLines) \cup Tables(Tail(SudHeader), {<<<<"4","0">>, <<"5","0">>>>})
           \cup Tables(FacilityZipHeader, FacilityZipLines)
    [] key = "mat_annual" -> Tables(MatHeader, MatLines)
    [] key = "abgar_noabd" -> Tables(NoabdHeader, NoabdLines)
    [] key = "core_set_mental_health" -> Tables(CoreSetHeader, CoreSetLines)
    [] key = "managed_care_enrollment_report" -> Tables(EnrollmentHeader, EnrollmentLines)
    [] key = "ffs_providers_profile" -> Tables(FfsHeader, FfsLines)
    [] key = "certified_eligible_by_zip_sex" -> Tables(ZipHeader, ZipLines)
    [] key = "foster_care_entries_exits" ->
         FosterSheets \cup {Sheet(FosterColumns, q) : q \in SeqsUpTo(FosterRows, MaxRows)}
    [] OTHER -> {Sheet(AcsColumns, q) : q \in SeqsUpTo(AcsRows, MaxRows)}

InitStage ==
  /\ MainIdle /\ LoadIdle
  /\ skey \in StageKeys
  /\ sraw \in StageTables(skey)
  /\ sdf = sraw /\ sprev = sraw /\ ssteps = <<>> /\ sres = NoReport

\* The cleaning rules, on the loaded table or once more on their own result.
StageNormalize ==
  /\ skey # "none" /\ ~sres.raised
  /\ ssteps \in {<<>>, <<"normalize">>}
  /\ \E res \in {Normalize(skey, sdf)} :
       /\ sdf' = res.df
       /\ sres' = [NoReport EXCEPT !.raised = res.raised]
  /\ sprev' = sdf
  /\ ssteps' = Append(ssteps, "normalize")
  /\ UNCHANGED <<skey, sraw, mainVars, loadVars>>

\* The schema validation that follows the rules.
StageValidate ==
  /\ skey # "none" /\ ~sres.raised
  /\ ssteps \in {<<"normalize">>, <<"normalize", "normalize">>}
  /\ \E res \in {Validate(skey, sdf)} :
       /\ sdf' = res.df
       /\ sres' = [NoReport EXCEPT !.failed = res.failed,
                                   !.failure_cases = res.failure_cases]
  /\ sprev' = sdf
  /\ ssteps' = Append(ssteps, "validate")
  /\ UNCHANGED <<skey, sraw, mainVars, loadVars>>

\* df = _filter_by_county(df, key), which ends the iteration.
StageFilter ==
  /\ skey # "none"
  /\ ssteps # <<>> /\ ssteps[Len(ssteps)] = "validate"
  /\ \E res \in {FilterByCounty(sdf, skey)} :
       /\ sdf' = res.df
       /\ sres' = [NoReport EXCEPT !.warned = res.warned]
  /\ sprev' = sdf
  /\ ssteps' = Append(ssteps, "filter")
  /\ UNCHANGED <<skey, sraw, mainVars, loadVars>>

\* The table the iteration ends with, written by export_to_csv (which skips
\* a table without rows) and loaded again from that file under the same key.
StageReload ==
  /\ skey # "none"
  /\ ssteps # <<>> /\ ssteps[Len(ssteps)] = "filter"
  /\ \E res \in {load_data(CsvPath, skey,
                            IF NRows(sdf) > 0 THEN CsvFile(to_csv(sdf)) ELSE NoFile, TRUE)} :
       /\ sdf' = res.df
       /\ sres' = [NoReport EXCEPT !.unavailable = (res.kind = "none")]
  /\ sprev' = sdf
  /\ ssteps' = Append(ssteps, "reload")
  /\ UNCHANGED <<skey, sraw, mainVars, loadVars>>

NextStage ==
  \/ StageNormalize
  \/ StageValidate
  \/ StageFilter
  \/ StageReload

SpecStage == InitStage /\ [][NextStage]_vars

\* ------------------------------------------------------ consecutive runs
\* The most runs of main() that follow one another over the same output
\* locations.
MaxRuns == 2
\* What a source may be at the start of a run: missing, or a file of one row.
RunFiles(key) ==
  IF key = "sud_recovery_facilities"
    THEN {NoFile, CsvFile(<<SudHeader, <<<<"C","a","l","a","v","e","r","a","s">>, <<"4","0">>, <<"5","0">>>>>>)}
  ELSE IF key = "mat_annual"
    THEN {NoFile, CsvFile(<<MatHeader, <<<<"C","a","l","a","v","e","r","a","s">>, <<"2","0","2","0">>, <<"B">>, <<"0">>, <<"o","k">>, <<>>, <<>>>>>>)}
  ELSE {NoFile}
Staged ==
  {(Registry[1] :> a) @@ (Registry[2] :> b) @@ (Registry[3] :> c) :
     a \in RunFiles(Registry[1]), b \in RunFiles(Registry[2]), c \in RunFiles(Registry[3])}
InitRuns ==
  /\ pc = "get_logger" /\ idx = 1 /\ stage = "none"
  /\ logfile \in LogFiles
  /\ files \in Staged
  /\ pyreadr = TRUE
  /\ dfs = NoTables /\ df = EmptyDataFrame /\ log = <<>> /\ http = 0
  /\ csv = NoTables /\ parquet = NoTables /\ excel = NoTables /\ sqlite = NoTables
  /\ run = 1 /\ exports = <<>>
  /\ LoadIdle /\ StageIdle

\* main() is started again after a run that ended: the sources are whatever
\* is staged now, the output locations hold what the runs before left there.
Rerun ==
  /\ pc \in {"done", "aborted", "export_aborted", "logger_aborted"}
  /\ run < MaxRuns
  /\ run' = run + 1
  /\ pc' = "get_logger" /\ idx' = 1 /\ stage' = "none"
  /\ logfile' \in LogFiles
  /\ files' \in Staged
  /\ dfs' = NoTables /\ df' = EmptyDataFrame /\ log' = <<>> /\ exports' = <<>>
  /\ UNCHANGED <<pyreadr, http, csv, parquet, excel, sqlite, loadVars, stageVars>>

NextRuns ==
  \/ Next
  \/ Rerun

SpecRuns == InitRuns /\ [][NextRuns]_vars

\* ================================================================= properties
\* ------------------------------------------------------------ the run of main
Exported(k) == k \in DOMAIN csv /\ k \in DOMAIN parquet /\ k \in DOMAIN excel /\ k \in DOMAIN sqlite

\* C1: a fatal condition in one dataset never aborts the processing of the
\* others: when an exception has ended the run at one dataset, every other
\* dataset that holds rows has still got its table to the exporters.
C1_FatalConditionIsolated ==
  pc = "aborted" =>
    \A k \in RegistryKeys \ {Registry[idx]} : NRows(dfs[k]) > 0 => Exported(k)

\* A dataset whose locator is a local path at which there is no file.
IsMissing(k) ==
  ~IsManual(DATA_SOURCES[k]) /\ ~IsRemote(DATA_SOURCES[k]) /\ ~files[k].exists
\* What the pipeline makes of one dataset's own file, computed apart from any
\* other dataset: loaded, cleaned, validated, filtered.
Alone(k) ==
  FilterByCounty(
    Validate(k, Normalize(k, Stored(load_data(DATA_SOURCES[k], k, files[k], pyreadr))).df).df,
    k).df

\* C4: for a dataset whose local path does not exist, load_data returns None,
\* the table the pipeline holds for it has zero rows at every point, no schema
\* violation is recorded for it, and at the end of the run every other dataset
\* holds exactly what the pipeline makes of its own file.
C4_MissingFile ==
  \A k \in RegistryKeys :
    IsMissing(k) =>
      /\ load_data(DATA_SOURCES[k], k, files[k], pyreadr).kind = "none"
      /\ k \in DOMAIN dfs => NRows(dfs[k]) = 0
      /\ \A e \in DOMAIN log : log[e].key = k => log[e].cases = {}
      /\ pc = "done" => \A j \in RegistryKeys \ {k} : dfs[j] = Alone(j)
C4_Witness ==
  /\ pc = "done"
  /\ \E k \in RegistryKeys :
       /\ IsMissing(k)
       /\ NRows(dfs[k]) = 0
       /\ \E j \in RegistryKeys \ {k} : NRows(dfs[j]) > 0 /\ Exported(j)

\* The members field of the source line that the row labelled i was read from
\* (line 1 is the header, members its fourth field).
RawMembers(i) == files["mat_annual"].lines[i + 2][4]
MembersNullIffSuppressed(T) ==
  \A r \in DOMAIN T.rows :
    /\ ~ParseNum(RawMembers(T.index[r])).ok => IsNa(Column(T, members)[r])
    /\ ParseNum(RawMembers(T.index[r])).ok => NotNa(Column(T, members)[r])
MatNormalized ==
  pc = "process_all" /\ Registry[idx] = "mat_annual" /\ stage \in {"validate", "filter"}
MatProcessed ==
  pc \in {"export_to_csv", "export_to_parquet", "export_to_excel", "export_to_sqlite", "done"}

\* C8: for mat_annual, a members cell whose raw value is not a number is null
\* after normalization, after validation and in the table handed to the
\* exporters, never 0, while a cell whose raw value is a number (an observed
\* 0 among them) is not null: the two stay apart.
C8_SuppressedMembersNull ==
  /\ MatNormalized => MembersNullIffSuppressed(df)
  /\ MatProcessed => MembersNullIffSuppressed(dfs["mat_annual"])
C8_Witness ==
  /\ pc = "export_to_csv"
  /\ \E r1, r2 \in DOMAIN dfs["mat_annual"].rows :
       /\ RawMembers(dfs["mat_annual"].index[r1]) = <<"*">>
       /\ IsNa(Column(dfs["mat_annual"], members)[r1])
       /\ RawMembers(dfs["mat_annual"].index[r2]) = <<"0">>
       /\ NotNa(Column(dfs["mat_annual"], members)[r2])

\* ------------------------------------------------------ one call of load_data
\* C3: load_data never performs a network fetch, in either implementation: no
\* call issues an HTTP request, and a manual, restricted or remote locator
\* gets None.
C3_NoNetworkFetch ==
  ret.impl # "none" =>
    /\ ret.http = 0
    /\ IsManual(call.source) \/ IsRemote(call.source) => ret.kind = "none"

\* A decode failure of etl/download.py load_data: the file is missing, the
\* optional package is, or the decoder of the branch raises.
DecodeFails(c) ==
  /\ ~IsManual(c.source) /\ ~IsRemote(c.source)
  /\ \/ ~c.file.exists
     \/ Suffix(c.source, TRUE) = "rdata" /\ ~c.pyreadr
     \/ Decode(Suffix(c.source, TRUE), c.key, c.file).raised

\* C5: a decode failure inside load_data (missing file, malformed container,
\* unreadable sheet, pyreadr absent) makes it return None, and no call lets
\* an exception out to load_all.
C5_DecodeFailureUnavailable ==
  ret.impl = "etl" =>
    /\ ~ret.propagated
    /\ DecodeFails(call) => ret.kind = "none"
C5_Witness ==
  /\ ret.impl = "etl" /\ ret.kind = "none" /\ ~ret.propagated
  /\ call.file.exists /\ call.file.format = "xlsx"
  /\ Decode(Suffix(call.source, TRUE), call.key, call.file).raised

\* ------------------------------------- one dataset through process_all's body
LastStep == IF ssteps = <<>> THEN "none" ELSE ssteps[Len(ssteps)]
\* The cell of table T in column c of the row labelled i.
CellAt(T, c, i) == Column(T, c)[CHOOSE r \in DOMAIN T.rows : T.index[r] = i]

C6_UncoercibleCellNulled ==
  LastStep = "validate" =>
    /\ ~sres.raised
    /\ \A fc \in sres.failure_cases :
         fc.index >= 0 => IsNa(CellAt(sdf, fc.column, fc.index))

\* C7: normalization is idempotent: the rules applied to a table they have
\* already normalized return that table.
C7_NormalizeIdempotent ==
  ssteps = <<"normalize", "normalize">> /\ ~sres.raised => sdf = sprev

IsZeroOrNull(v) == IsNa(v) \/ (v.t \in {"int", "float"} /\ v.n = 0)
Derived ==
  /\ skey = "sud_recovery_facilities" /\ ssteps = <<"normalize">> /\ ~sres.raised
  /\ HasColumn(sdf, Capacity_Utilization) /\ HasColumn(sdf, Large_Facility)

\* C9: the Capacity_Utilization of a facility row whose Total_Capacity is 0 or
\* null is null, never an infinity.
C9_ZeroCapacityGivesNull ==
  Derived =>
    \A r \in DOMAIN sdf.rows :
      IsZeroOrNull(Column(sdf, Total_Capacity)[r])
        => IsNa(Column(sdf, Capacity_Utilization)[r])

\* u is a number of two decimals within half a hundredth of a / b.
Hundredths(u) == u.n \div (Scale \div 100)
IsRatioToTwoDecimals(u, a, b) ==
  /\ u.t = "float"
  /\ u.n % (Scale \div 100) = 0
  /\ 2 * Abs(Hundredths(u) * b - 100 * a) <= Abs(b)
IsFinite(v) == v.t \in {"int", "float"}

\* C10: for a facility row with a non-zero Total_Capacity, Capacity_Utilization
\* is Treatment_Capacity / Total_Capacity rounded to 2 decimals, and
\* Large_Facility is true exactly when Total_Capacity is greater than 50.
C10_UtilizationAndLargeFacility ==
  Derived =>
    \A r \in DOMAIN sdf.rows :
      /\ ( /\ IsFinite(Column(sdf, Treatment_Capacity)[r])
           /\ IsFinite(Column(sdf, Total_Capacity)[r])
           /\ Scaled(Column(sdf, Total_Capacity)[r]) # 0 )
         => IsRatioToTwoDecimals(Column(sdf, Capacity_Utilization)[r],
                                 Scaled(Column(sdf, Treatment_Capacity)[r]),
                                 Scaled(Column(sdf, Total_Capacity)[r]))
      /\ Column(sdf, Large_Facility)[r]
           = BoolV(/\ IsFinite(Column(sdf, Total_Capacity)[r])
                   /\ Scaled(Column(sdf, Total_Capacity)[r]) > 50 * Scale)
C10_Witness ==
  /\ Derived
  /\ \E r1, r2 \in DOMAIN sdf.rows :
       /\ Column(sdf, Treatment_Capacity)[r1] = IntV(40)
       /\ Column(sdf, Total_Capacity)[r1] = IntV(50)
       /\ Column(sdf, Capacity_Utilization)[r1] = FloatV(8000)
       /\ Column(sdf, Large_Facility)[r1] = BoolV(FALSE)
       /\ Column(sdf, Total_Capacity)[r2] = IntV(51)
       /\ Column(sdf, Large_Facility)[r2] = BoolV(TRUE)

\* The row of table T that carries the index label i.
RowOf(T, i) == CHOOSE r \in DOMAIN T.rows : T.index[r] = i
Accepted(T, r) == Column(T, CountyColumn(skey))[r] \in AcceptableValues(skey)
FilteredWithColumn ==
  LastStep = "filter" /\ skey \in FilterKeys /\ HasColumn(sprev, CountyColumn(skey))

\* C17: when the dataset is filtered and its county column is present, the
\* table _filter_by_county returns holds exactly the rows of its input whose
\* county value is one of the accepted strings, each row as it was, and in
\* the order they had in the input.
C17_KeepsExactlyAcceptedInOrder ==
  FilteredWithColumn =>
    /\ sdf.cols = sprev.cols
    /\ \A r \in DOMAIN sdf.rows :
         \E p \in DOMAIN sprev.rows :
           /\ sprev.index[p] = sdf.index[r]
           /\ sprev.rows[p] = sdf.rows[r]
           /\ Accepted(sprev, p)
    /\ \A p \in DOMAIN sprev.rows :
         Accepted(sprev, p) => \E r \in DOMAIN sdf.rows : sdf.index[r] = sprev.index[p]
    /\ \A r1, r2 \in DOMAIN sdf.rows :
         r1 < r2 => RowOf(sprev, sdf.index[r1]) < RowOf(sprev, sdf.index[r2])
\* A filter that dropped the first of two rows and kept the second.
C17_Witness ==
  /\ FilteredWithColumn
  /\ NRows(sprev) = 2 /\ NRows(sdf) = 1
  /\ sdf.index[1] = sprev.index[2]

\* C18: when the dataset is filtered and its county column is not in the
\* table, _filter_by_county returns the table as it was and logs a warning.
C18_MissingColumnUnchangedAndWarned ==
  LastStep = "filter" /\ skey \in FilterKeys /\ ~HasColumn(sprev, CountyColumn(skey)) =>
    sdf = sprev /\ sres.warned

\* C19: for a dataset that county_filters does not name, _filter_by_county
\* returns the table as it was.
C19_UnfilteredDatasetUnchanged ==
  LastStep = "filter" /\ skey \notin FilterKeys => sdf = sprev
\* The enrollment report, which has a County column and no filter, went
\* through with a row of another county.
C19_Witness ==
  /\ LastStep = "filter" /\ skey = "managed_care_enrollment_report"
  /\ \E r \in DOMAIN sdf.rows :
       Column(sdf, County)[r] \notin {StrV(Calaveras), StrV(<<"S","t","a","t","e">>), StrV(<<"S","t","a","t","e","w","i","d","e">>)}

\* Dataset number i of the registry has been loaded / has left the filter.
Loaded(i) == Registry[i] \in DOMAIN dfs
Processed(i) ==
  \/ pc \in {"export_to_csv", "export_to_parquet", "export_to_excel", "export_to_sqlite",
             "done", "export_aborted"}
  \/ pc = "process_all" /\ idx > i

\* C20: a dataset is loaded only after every dataset before it in the
\* registry has been normalized, validated and filtered.
C20_EndToEndBeforeNextLoad ==
  pc # "aborted" =>
    \A i \in DOMAIN Registry :
      i > 1 /\ Loaded(i) => Processed(i - 1)

\* C14: after a run, every dataset of the registry has a file in output_csv
\* and output_parquet, a table in the database and a sheet in the workbook,
\* an empty one when its table has no rows.
C14_EveryDatasetHasArtifact ==
  pc = "done" =>
    \A k \in RegistryKeys :
      /\ k \in DOMAIN csv /\ k \in DOMAIN parquet
      /\ k \in DOMAIN sqlite /\ k \in DOMAIN excel

\* The exporter of the format was called in this run / wrote the dataset's
\* artifact in this run.
Attempted(format) == \E i \in DOMAIN exports : exports[i].format = format
WrittenThisRun(format, k) ==
  \E i \in DOMAIN exports : exports[i].format = format /\ k \in exports[i].keys
Artifacts(format) ==
  CASE format = "csv" -> csv
    [] format = "parquet" -> parquet
    [] format = "excel" -> excel
    [] OTHER -> sqlite
Formats == {"csv", "parquet", "excel", "sqlite"}

\* C15: when the export of one format has failed in a run of main, the
\* exporters of the other three formats have still been called by the time
\* the run ends, and every artifact written in the run is still in place.
C15_ExportFailureIsolated ==
  pc \in {"done", "export_aborted"} /\ Faults > 0 =>
    /\ \A format \in Formats : Attempted(format)
    /\ \A format \in Formats : \A k \in RegistryKeys :
         WrittenThisRun(format, k) => k \in DOMAIN Artifacts(format)

\* C16: after a run that follows another over the same output locations,
\* every CSV file, Parquet file, database table and workbook sheet that is
\* there was written by this run.
C16_NoStaleArtifact ==
  pc = "done" /\ run > 1 =>
    \A format \in Formats : \A k \in RegistryKeys :
      k \in DOMAIN Artifacts(format) => WrittenThisRun(format, k)

\* The foster-care table after the cleaning rules ran once on the loaded one.
FosterNormalized == skey = "foster_care_entries_exits" /\ ssteps = <<"normalize">>
PercentChange(T, r) == Column(T, <<"O","n","e","-","y","e","a","r"," ","p","e","r","c","e","n","t"," ","c","h","a","n","g","e">>)[r]
ChangeFlag(T, r) == Column(T, <<"O","n","e","Y","e","a","r","C","h","a","n","g","e","F","l","a","g">>)[r]
\* The number written before the '%' of a text, when there is one.
PercentText(v) == ParseNum(RStrip(v.s, "%"))
IsPercentText(v) == v.t = "str" /\ EndsWith(v.s, <<"%">>) /\ PercentText(v).ok
IsUnparsable(v) ==
  v.t = "str" /\ ~PercentText(v).ok /\ Lower(Strip(RStrip(v.s, "%"))) \notin {<<"i","n","f">>, <<"-","i","n","f">>}

\* C11: in One-year percent change, a text with a trailing '%' becomes the
\* number before the '%' divided by 100 ("5.2%" gives 0.052, "-3%" gives
\* -0.03), a null or unreadable value becomes null, and OneYearChangeFlag is
\* true exactly when the fraction is not null and its absolute value is over
\* 0.05 (false for null and for exactly 0.05).
C11_PercentChangeAndFlag ==
  FosterNormalized /\ HasColumn(sprev, <<"O","n","e","-","y","e","a","r"," ","p","e","r","c","e","n","t"," ","c","h","a","n","g","e">>)
                   /\ HasColumn(sprev, <<"M","e","a","s","u","r","e"," ","n","u","m","b","e","r">>) =>
    \A r \in DOMAIN sdf.rows :
      /\ IsPercentText(PercentChange(sprev, r)) =>
           /\ PercentChange(sdf, r).t = "float"
           /\ 100 * PercentChange(sdf, r).n = PercentText(PercentChange(sprev, r)).n
      /\ IsNa(PercentChange(sprev, r)) \/ IsUnparsable(PercentChange(sprev, r)) =>
           IsNa(PercentChange(sdf, r))
      /\ ChangeFlag(sdf, r) =
           BoolV(NotNa(PercentChange(sdf, r)) /\ 20 * Abs(PercentChange(sdf, r).n) > Scale)
      /\ PercentChange(sprev, r) = StrV(<<"5",".","2","%">>) =>
           PercentChange(sdf, r) = FloatV(520) /\ ChangeFlag(sdf, r) = BoolV(TRUE)
      /\ PercentChange(sprev, r) = StrV(<<"-","3","%">>) =>
           PercentChange(sdf, r) = FloatV(-300) /\ ChangeFlag(sdf, r) = BoolV(FALSE)
      /\ PercentChange(sprev, r) = StrV(<<"5","%">>) =>
           PercentChange(sdf, r) = FloatV(500) /\ ChangeFlag(sdf, r) = BoolV(FALSE)
\* A table with a change of exactly 5% next to an unreadable or missing one.
C11_Witness ==
  /\ FosterNormalized /\ HasColumn(sprev, <<"M","e","a","s","u","r","e"," ","n","u","m","b","e","r">>) /\ NRows(sdf) = 2
  /\ PercentChange(sprev, 1) = StrV(<<"5","%">>)
  /\ IsNa(PercentChange(sprev, 2)) \/ IsUnparsable(PercentChange(sprev, 2))

\* A loaded foster-care table that has no 'Measure number' column yet.
Headless == FosterNormalized /\ ~HasColumn(sprev, <<"M","e","a","s","u","r","e"," ","n","u","m","b","e","r">>)
\* Row r of T has a cell that contains the marker as written / in any
\* letter case.
HasMarker(T, r) ==
  \E c \in DOMAIN T.rows[r] : T.rows[r][c].t = "str" /\ Contains(T.rows[r][c].s, <<"M","e","a","s","u","r","e"," ","n","u","m","b","e","r">>)
HasMarkerAnyCase(T, r) ==
  \E c \in DOMAIN T.rows[r] :
    T.rows[r][c].t = "str" /\ Contains(Lower(T.rows[r][c].s), <<"m","e","a","s","u","r","e"," ","n","u","m","b","e","r">>)
\* The columns that the numeric and percent rules rewrite.
Rewritten ==
  {StrV(<<"M","o","s","t"," ","r","e","c","e","n","t"," ","n","u","m","e","r","a","t","o","r">>), StrV(<<"M","o","s","t"," ","r","e","c","e","n","t"," ","d","e","n","o","m","i","n","a","t","o","r">>),
   StrV(<<"M","o","s","t"," ","r","e","c","e","n","t"," ","p","e","r","f","o","r","m","a","n","c","e">>), StrV(<<"O","n","e","-","y","e","a","r"," ","p","e","r","c","e","n","t"," ","c","h","a","n","g","e">>)}
\* sdf is sprev with row h promoted to the column names: the names are the
\* cells of row h (the derived columns follow them), the rows are the rows
\* below h, in order, and the cells the later rules do not rewrite are as
\* they were.
PromotedAt(h) ==
  /\ Len(sdf.cols) >= Len(sprev.cols)
  /\ SubSeq(sdf.cols, 1, Len(sprev.cols)) = sprev.rows[h]
  /\ NRows(sdf) = NRows(sprev) - h
  /\ \A j \in DOMAIN sdf.rows : \A c \in DOMAIN sprev.cols :
       sprev.rows[h][c] \notin Rewritten => sdf.rows[j][c] = sprev.rows[h + j][c]
\* sdf is sprev with its names and rows as they were.
AsLoaded ==
  /\ Len(sdf.cols) >= Len(sprev.cols)
  /\ SubSeq(sdf.cols, 1, Len(sprev.cols)) = sprev.cols
  /\ NRows(sdf) = NRows(sprev)
  /\ \A j \in DOMAIN sdf.rows : \A c \in DOMAIN sprev.cols :
       sprev.cols[c] \notin Rewritten => sdf.rows[j][c] = sprev.rows[j][c]

\* C12 as stated: the first row that contains the text 'Measure number' is
\* promoted to the column names and the rows down to it are dropped.
C12_HeaderRowPromoted ==
  Headless =>
    \A h \in DOMAIN sprev.rows :
      HasMarker(sprev, h) /\ (\A q \in 1..(h - 1) : ~HasMarker(sprev, q)) => PromotedAt(h)
\* C12: the first row that contains the text 'Measure number' in any letter
\* case is promoted to the column names and the rows down to it are dropped.
C12_HeaderRowPromotedAnyCase ==
  Headless =>
    \A h \in DOMAIN sprev.rows :
      HasMarkerAnyCase(sprev, h) /\ (\A q \in 1..(h - 1) : ~HasMarkerAnyCase(sprev, q))
        => PromotedAt(h)
\* Title, blank row, header, two data rows: the header was promoted.
C12_Witness ==
  /\ Headless /\ NRows(sprev) = 5 /\ HasMarker(sprev, 3) /\ NRows(sdf) = 2
  /\ sdf.cols[1] = StrV(<<"M","e","a","s","u","r","e"," ","n","u","m","b","e","r">>)

\* C13 as stated: when no row contains the text 'Measure number', the table
\* keeps its column names and its rows.
C13_NoMarkerAsLoaded ==
  Headless /\ (\A r \in DOMAIN sprev.rows : ~HasMarker(sprev, r)) => AsLoaded
\* C13: when no row contains the text 'Measure number' in any letter case,
\* the table keeps its column names and its rows.
C13_NoMarkerAnyCaseAsLoaded ==
  Headless /\ (\A r \in DOMAIN sprev.rows : ~HasMarkerAnyCase(sprev, r)) => AsLoaded
\* A sheet of title, blank row and data rows without a header went through.
C13_Witness ==
  /\ Headless /\ NRows(sprev) = 4 /\ NRows(sdf) = 4
  /\ \A r \in DOMAIN sprev.rows : ~HasMarkerAnyCase(sprev, r)

\* ----------------------------------------- declared columns the table lacks
\* The positions of the schema's columns that table T lacks.
MissingDeclared(key, T) == {i \in DOMAIN Schema(key) : ~HasColumn(T, Schema(key)[i][1])}
\* The type the schema of key declares for the column named by cell c, or
\* "none" when it declares no such column.
DeclaredType(key, c) ==
  IF \E i \in DOMAIN Schema(key) : StrV(Schema(key)[i][1]) = c
    THEN Schema(key)[CHOOSE i \in DOMAIN Schema(key) : StrV(Schema(key)[i][1]) = c][2]
    ELSE "none"

\* C21: validating a table that lacks a column its schema declares records no
\* violation and no failure, adds no row and no column, coerces the declared
\* columns that are present and leaves the undeclared ones as they were.
C21_MissingColumnTolerated ==
  /\ LastStep = "validate" /\ skey \in SchemaKeys /\ NRows(sprev) > 0
  /\ MissingDeclared(skey, sprev) # {}
  => /\ ~sres.failed /\ sres.failure_cases = {}
     /\ sdf.cols = sprev.cols /\ sdf.index = sprev.index
     /\ \A r \in DOMAIN sprev.rows : \A c \in DOMAIN sprev.cols :
          sdf.rows[r][c] =
            IF DeclaredType(skey, sprev.cols[c]) = "none" THEN sprev.rows[r][c]
            ELSE CoerceCell(sprev.rows[r][c], DeclaredType(skey, sprev.cols[c])).v

\* --------------------------------------------------------------- ZIP columns
\* The columns the ZIP rules of a dataset rewrite, each with its width.
ZipColumns(key) ==
  { <<<<"z","i","p","_","c","o","d","e">>, 5>>, <<<<"Z","I","P">>, 5>>, <<<<"F","a","c","i","l","i","t","y","_","Z","i","p">>, 5>> }
    \cup (IF key = "ffs_providers_profile" THEN { <<<<"Z","I","P","_","4">>, 4>> } ELSE {})
\* A value that reads as a number.
NumericLooking(v) == NotNa(ToNumericCell(v))
\* The value as a code of w digits, zeros on the left.
Padded(v, w) == PadCell(ToNumericCell(v), w)

\* C22: the rules leave in a ZIP column the zero-padded code of every value
\* that reads as a number and the very value of every one that does not.
C22_ZipPaddedOrUntouched ==
  ssteps = <<"normalize">> /\ ~sres.raised =>
    \A z \in ZipColumns(skey) :
      HasColumn(sraw, z[1]) =>
        /\ HasColumn(sdf, z[1]) /\ NRows(sdf) = NRows(sraw)
        /\ \A r \in DOMAIN sraw.rows :
             Column(sdf, z[1])[r] =
               IF NumericLooking(Column(sraw, z[1])[r])
                 THEN Padded(Column(sraw, z[1])[r], z[2])
                 ELSE Column(sraw, z[1])[r]

\* ----------------------------------------------- delimited text and back
\* A column of text: no cell other than text and missing values, some text.
IsTextColumn(T, c) ==
  /\ \A r \in DOMAIN T.rows : T.rows[r][c].t \in {"str", "null"}
  /\ \E r \in DOMAIN T.rows : T.rows[r][c].t = "str"
\* The text of a cell, a missing value apart.
SameText(v, w) == IF IsNa(v) THEN IsNa(w) ELSE NotNa(w) /\ ToStr(w) = v.s

\* C23: a dataset's final table written by export_to_csv and loaded again
\* under the same key is a table with as many rows, and each of its text
\* columns holds the strings it held.
C23_CsvRoundTrip ==
  LastStep = "reload" =>
    /\ ~sres.unavailable
    /\ NRows(sdf) = NRows(sprev)
    /\ \A c \in DOMAIN sprev.cols :
         IsTextColumn(sprev, c) =>
           /\ c \in DOMAIN sdf.cols
           /\ \A r \in DOMAIN sprev.rows : SameText(sprev.rows[r][c], sdf.rows[r][c])

\* ------------------------------------------------------------- the log sink
\* The run is over: main() returned or an exception left the program.
Ended == pc \in {"done", "aborted", "export_aborted", "logger_aborted"}

\* C24: a log file that cannot be opened never ends the run: no run is ended
\* by the logger, so that its datasets are loaded and processed as they are
\* with a working log file.
C24_LoggingFailureTolerated ==
  logfile # "writable" =>
    /\ pc # "logger_aborted"
    /\ Ended => DOMAIN dfs = RegistryKeys

\* C25: whatever the source files are and hold, a run whose log file and
\* output locations work ends with main() returning after load_all,
\* validate_and_summarize, process_all and a call of each of the four
\* exporters.
C25_RunGoesThroughAllStages ==
  Ended /\ logfile = "writable" /\ Faults = 0 =>
    /\ pc = "done"
    /\ DOMAIN dfs = RegistryKeys
    /\ \A f \in Formats : Attempted(f)

\* --------------------------------------------------- diagnostics of load_data
\* What a call logged apart from the line that announces a local file.
OutcomeEvents(events) == SelectSeq(events, LAMBDA e : e # <<"info", "loading_local">>)
\* The container of R objects is read and holds none.
EmptyContainer(c) ==
  /\ ~IsManual(c.source) /\ ~IsRemote(c.source)
  /\ Suffix(c.source, TRUE) = "rdata" /\ c.pyreadr
  /\ c.file.exists /\ c.file.format = "rdata" /\ c.file.objects = 0
\* The failure event each cause of unavailability is reported with.
Cause(c) ==
  IF IsManual(c.source) THEN <<"warning", "manual_or_restricted">>
  ELSE IF IsRemote(c.source) THEN <<"warning", "remote_disabled">>
  ELSE IF ~c.file.exists THEN <<"error", "file_not_found">>
  ELSE IF Suffix(c.source, TRUE) = "rdata" /\ ~c.pyreadr THEN <<"error", "pyreadr_required">>
  ELSE IF EmptyContainer(c) THEN <<"warning", "rdata_no_objects">>
  ELSE <<"error", "failed_to_load">>

RawTable(k) == Stored(load_data(DATA_SOURCES[k], k, files[k], pyreadr))
Cleaned(k) == Normalize(k, RawTable(k)).df
Checked(k) == Validate(k, Cleaned(k)).df
Filtered(k) == FilterByCounty(Checked(k), k).df

C28_ManifestPreserved ==
  /\ pc = "load_all" => DOMAIN dfs = {Registry[i] : i \in 1..(idx - 1)}
  /\ pc \in {"validate_and_summarize", "process_all", "export_to_csv", "export_to_parquet",
             "export_to_excel", "export_to_sqlite", "done", "export_aborted"}
       => DOMAIN dfs = RegistryKeys
  /\ pc = "aborted" => stage = "normalize" /\ DOMAIN dfs = RegistryKeys
C28_Witness ==
  /\ pc = "export_to_csv" /\ DOMAIN dfs = RegistryKeys
  /\ RawTable("managed_care_provider_listing") = EmptyDataFrame
  /\ NRows(dfs["mat_annual"]) < NRows(RawTable("mat_annual"))
  /\ \E i \in DOMAIN log :
       log[i].msg = "schema_validation_failed" /\ log[i].key = "sud_recovery_facilities"

\* ------------------------------------------------ one artifact fails to write
\* C29: in each format, when the write of one dataset's artifact has raised,
\* the non-empty datasets after it in the dict are written all the same.
C29_LaterArtifactsWritten ==
  \A i \in DOMAIN exports :
    \A k \in exports[i].failed :
      \A j \in NonEmpty(dfs) \ exports[i].failed :
        Position(j) > Position(k) =>
          /\ j \in exports[i].keys
          /\ j \in DOMAIN Artifacts(exports[i].format)

\* ------------------------------------------- the tables the exporters are given
ExportSteps == {"export_to_csv", "export_to_parquet", "export_to_excel", "export_to_sqlite"}

\* C30: no exporter changes the tables it is given: a step of export_to_csv,
\* export_to_parquet, export_to_excel or export_to_sqlite leaves the mapping
\* from dataset to table as it was.
C30_ExportersLeaveTables ==
  [][(pc \in ExportSteps) => (dfs' = dfs)]_vars
C30_Witness ==
  /\ pc = "done" /\ \A i \in DOMAIN exports : exports[i].outcome = "ok"
  /\ "mat_annual" \in DOMAIN parquet /\ "mat_annual" \in DOMAIN sqlite
  /\ parquet["mat_annual"] # dfs["mat_annual"]
  /\ sqlite["mat_annual"] = dfs["mat_annual"] /\ csv["mat_annual"] = dfs["mat_annual"]
  /\ excel["mat_annual"] = ExcelClean(dfs["mat_annual"])
====
